---- MODULE Spec2Model ----
(***************************************************************************)
(* Model of the truthbeam CacheableClient (Retrieve / Prefetch over a      *)
(* no-expiry cache in front of the compass batch metadata endpoint) and of *)
(* the status calculators of the compass basic mapper.                     *)
(*                                                                         *)
(* Rule ids are modelled as positive integers.  The remote endpoint is an  *)
(* environment: for every request it either fails as a whole (transport    *)
(* error, non-200 status, undecodable body) or answers 200 with a result   *)
(* list that is empty or carries one result per requested id, in request   *)
(* order and under the requested id, each result being one of: metadata,   *)
(* per-item error, neither, both.                                          *)
(***************************************************************************)
EXTENDS Integers, Sequences, FiniteSets, TLC

\* ---------------------------------------------------------------- bounds
NumRuleIds == 2
MaxCalls == 2
MaxVersion == 1
MaxListLen == 2
MaxEvidence == 102
MaxRegistrations == 2
MaxRepeats == 1
MaxStoreCalls == 3
MaxLogRecords == 3
MaxLogCalls == 1

\* ------------------------------------------------------ program constants
batchSize == 50
maxBatchSize == 100

Procs == {"p1", "p2"}
RuleIds == 1 .. NumRuleIds
EngineNames == <<"engine-a", "engine-b">>

\* EvidencePolicyEvaluationStatus values; "Bogus" stands for any
\* unrecognised string.
Passed == "Passed"
Failed == "Failed"
NotRun == "Not Run"
NotApplicable == "Not Applicable"
Unknown == "Unknown"
EvaluationStatuses == {Passed, Failed, NotRun, NotApplicable, Unknown, "Bogus", ""}

\* ComplianceStatus values
COMPLIANT == "COMPLIANT"
NONCOMPLIANT == "NON_COMPLIANT"
NOTAPPLICABLE == "NOT_APPLICABLE"
UNKNOWN == "UNKNOWN"

\* A nil *ComplianceMetadata.
NilMetadata == [nil |-> TRUE]

\* The fields of an Evidence that the client reads.
Evidence(r, engine, status) ==
    [PolicyRuleId |-> r, PolicyEngineName |-> engine, PolicyEvaluationStatus |-> status]

\* ------------------------------------------------------- status mapping

\* CacheableClient.calculateStatus: the verdict Retrieve computes locally.
calculateStatus(evidence) ==
    CASE evidence.PolicyEvaluationStatus = Passed -> COMPLIANT
      [] evidence.PolicyEvaluationStatus = Failed -> NONCOMPLIANT
      [] evidence.PolicyEvaluationStatus = NotApplicable -> NOTAPPLICABLE
      [] OTHER -> UNKNOWN

\* A status calculator without the NotRun case.
mapDecisionWithoutNotRun(status) ==
    CASE status = Passed -> COMPLIANT
      [] status = Failed -> NONCOMPLIANT
      [] status = NotApplicable -> NOTAPPLICABLE
      [] OTHER -> UNKNOWN

\* basic.Mapper.mapDecision: the Status Calculator of the resolver.
mapDecision(status) ==
    CASE status = Passed -> COMPLIANT
      [] status = Failed -> NONCOMPLIANT
      [] status \in {NotRun, NotApplicable} -> NOTAPPLICABLE
      [] OTHER -> UNKNOWN

\* ----------------------------------------------------------- the remote

\* The metadata the remote resolver holds for rule r at version v of its
\* plans: version 0 is the Unmapped fallback of GetMetadata, a later
\* version a mapping registered since.
MetadataOf(r, v) ==
    IF v = 0
    THEN [Control |-> [Id |-> r, Category |-> "Unknown", CatalogId |-> "unknown"],
          Frameworks |-> [Requirements |-> <<>>, Frameworks |-> <<>>],
          Risk |-> "nil",
          EnrichmentStatus |-> "unmapped"]
    ELSE [Control |-> [Id |-> 1000 * v + r, Category |-> "Access Control",
                       CatalogId |-> "cat-A"],
          Frameworks |-> [Requirements |-> <<r>>, Frameworks |-> <<"NIST-800-53">>],
          Risk |-> "nil",
          EnrichmentStatus |-> "success"]

\* What the remote puts in one result.
ItemOutcomes == {"ok", "error", "nometa", "errmeta"}

\* A response pattern: the whole request fails ("fail"), the result list
\* is empty ("empty"), or <<a, b>>: results at odd positions have outcome
\* a, results at even positions outcome b.
ItemPatterns == ItemOutcomes \X ItemOutcomes
ResponsePatterns == {<<"fail", "fail">>, <<"empty", "empty">>} \cup ItemPatterns

OutcomeAt(pat, k) == IF k % 2 = 1 THEN pat[1] ELSE pat[2]

\* One BatchMetadataResult of the response to request req under pat.
ResultAt(req, pat, k, ver) ==
    [Index |-> k - 1,
     PolicyRuleId |-> req[k],
     Metadata |-> IF OutcomeAt(pat, k) \in {"ok", "errmeta"}
                  THEN MetadataOf(req[k], ver[req[k]]) ELSE NilMetadata,
     Error |-> OutcomeAt(pat, k) \in {"error", "errmeta"}]

\* callBatchMetadata: the parsed JSON200 body or an error.
callBatchMetadata(req, pat, ver) ==
    IF pat[1] = "fail"
    THEN [err |-> TRUE, Results |-> <<>>]
    ELSE IF pat[1] = "empty"
    THEN [err |-> FALSE, Results |-> <<>>]
    ELSE [err |-> FALSE,
          Results |-> [k \in 1 .. Len(req) |-> ResultAt(req, pat, k, ver)]]

\* fetchMetadata without the test of result.Error.
fetchMetadataIgnoringError(policyRuleId, pat, ver) ==
    LET resp == callBatchMetadata(<<policyRuleId>>, pat, ver) IN
    IF resp.err THEN [err |-> TRUE, metadata |-> NilMetadata]
    ELSE IF Len(resp.Results) = 0 THEN [err |-> TRUE, metadata |-> NilMetadata]
    ELSE IF resp.Results[1].Metadata = NilMetadata
    THEN [err |-> TRUE, metadata |-> NilMetadata]
    ELSE [err |-> FALSE, metadata |-> resp.Results[1].Metadata]

\* fetchMetadata: the single-id fetch of Retrieve.
fetchMetadata(policyRuleId, pat, ver) ==
    LET resp == callBatchMetadata(<<policyRuleId>>, pat, ver) IN
    IF resp.err THEN [err |-> TRUE, metadata |-> NilMetadata]
    ELSE IF Len(resp.Results) = 0 THEN [err |-> TRUE, metadata |-> NilMetadata]
    ELSE IF resp.Results[1].Error THEN [err |-> TRUE, metadata |-> NilMetadata]
    ELSE IF resp.Results[1].Metadata = NilMetadata
    THEN [err |-> TRUE, metadata |-> NilMetadata]
    ELSE [err |-> FALSE, metadata |-> resp.Results[1].Metadata]

\* ------------------------------------------------------------ the cache

\* cache.Get's found flag.
CacheFound(c, k) == k \in DOMAIN c

\* A Set that stores nothing.
CacheSetNothing(c, k, v) == c

\* A Set into a cache that holds one entry only.
CacheSetEvicting(c, k, v) == [x \in {k} |-> v]

\* A Set under a key other than the rule id.
CacheSetUnderNextKey(c, k, v) ==
    [x \in (DOMAIN c) \cup {k + 1} |-> IF x = k + 1 THEN v ELSE c[x]]

\* cache.Set(k, v, NoExpiration).
CacheSet(c, k, v) == [x \in (DOMAIN c) \cup {k} |-> IF x = k THEN v ELSE c[x]]

\* A Compliance whose status is not computed from the evidence at hand.
CombineStaleStatus(metadata, evidence) ==
    [Control |-> metadata.Control,
     Frameworks |-> metadata.Frameworks,
     Risk |-> metadata.Risk,
     Status |-> COMPLIANT,
     EnrichmentStatus |-> metadata.EnrichmentStatus]

\* The Compliance Retrieve builds from the metadata and the fresh status.
Combine(metadata, evidence) ==
    [Control |-> metadata.Control,
     Frameworks |-> metadata.Frameworks,
     Risk |-> metadata.Risk,
     Status |-> calculateStatus(evidence),
     EnrichmentStatus |-> metadata.EnrichmentStatus]

\* ------------------------------------------------------------- Prefetch

\* Prefetch's test !seen[evidence.PolicyRuleId] at position k of the loop
\* over evidenceList: seen holds the rule ids of the positions before k.
Unseen(evidenceList, k) ==
    \A j \in 1 .. k - 1 : evidenceList[j].PolicyRuleId # evidenceList[k].PolicyRuleId

\* The policy rule ids without deduplication.
AllIds(evidenceList) ==
    [k \in 1 .. Len(evidenceList) |-> evidenceList[k].PolicyRuleId]

\* The unique policy rule ids of Prefetch, in first-occurrence order.
UniqueIds(evidenceList) ==
    LET kept == {k \in 1 .. Len(evidenceList) : Unseen(evidenceList, k)}
        nth(m) == CHOOSE k \in kept : Cardinality({x \in kept : x < k}) = m - 1
    IN [m \in 1 .. Cardinality(kept) |-> evidenceList[nth(m)].PolicyRuleId]

\* A batch end that is one short for a full batch.
BatchEndShort(i, n) == IF i + batchSize > n THEN n ELSE i + batchSize - 1

\* The end of the batch that starts at offset i (0-based, exclusive end).
BatchEnd(i, n) == IF i + batchSize > n THEN n ELSE i + batchSize

\* A loop that caches every result.
CacheableAlways(result) == TRUE

\* A test for caching that looks at the metadata only.
CacheableIgnoringError(result) == result.Metadata # NilMetadata

\* prefetchBatch's test for caching one result.
Cacheable(result) == ~result.Error /\ result.Metadata # NilMetadata

\* ------------------------------------------------ compass: basic mapper

\* The catalog ids plans are registered under, and the mapper ids of the
\* mapper.Set.
CatalogIds == {"cat-A", "cat-B"}
BasicID == "basic"
MapperIds == {BasicID, "engine-a"}

\* api.ComplianceMetadataEnrichmentStatus.
Success == "success"
Unmapped == "unmapped"

\* The concatenation of a sequence of sequences.
RECURSIVE Flatten(_)
Flatten(ss) == IF ss = <<>> THEN <<>> ELSE Head(ss) \o Flatten(Tail(ss))

\* The writes of buildProceduresMap in the order it makes them: plan by
\* plan, requirement by requirement, procedure by procedure.
ProcedureEntries(plans) ==
    Flatten([p \in 1 .. Len(plans) |->
        Flatten([a \in 1 .. Len(plans[p].Assessments) |->
            [k \in 1 .. Len(plans[p].Assessments[a].Procedures) |->
                [Id |-> plans[p].Assessments[a].Procedures[k].Id,
                 Info |-> [ControlID |-> plans[p].Control.EntryId,
                           RequirementID |-> plans[p].Assessments[a].Requirement.EntryId,
                           Documentation |->
                               plans[p].Assessments[a].Procedures[k].Documentation]]]])])

\* A map built by assigning entries[k].Info under entries[k].Id for
\* k = 1, 2, ... keeps the first assignment of each key.
KeepFirst(entries) ==
    [id \in {entries[k].Id : k \in 1 .. Len(entries)} |->
        LET first == CHOOSE k \in 1 .. Len(entries) :
                        /\ entries[k].Id = id
                        /\ \A n \in 1 .. k - 1 : entries[n].Id # id
        IN entries[first].Info]

\* A Go map built by assigning entries[k].Info under entries[k].Id for
\* k = 1, 2, ...: a later assignment replaces an earlier one.
KeepLast(entries) ==
    [id \in {entries[k].Id : k \in 1 .. Len(entries)} |->
        LET last == CHOOSE k \in 1 .. Len(entries) :
                        /\ entries[k].Id = id
                        /\ \A n \in k + 1 .. Len(entries) : entries[n].Id # id
        IN entries[last].Info]

\* Mapper.buildProceduresMap: procedure id -> ProcedureInfo.
buildProceduresMap(plans) == KeepLast(ProcedureEntries(plans))

\* The writes of buildControlDataMap in order: family by family, control
\* by control.
ControlEntries(catalog) ==
    Flatten([f \in 1 .. Len(catalog.ControlFamilies) |->
        [k \in 1 .. Len(catalog.ControlFamilies[f].Controls) |->
            [Id |-> catalog.ControlFamilies[f].Controls[k].Id,
             Info |-> [Mappings |-> catalog.ControlFamilies[f].Controls[k].GuidelineMappings,
                       Category |-> catalog.ControlFamilies[f].Title]]]])

\* A control index that keeps the first family listing a control.
buildControlDataMapFirstFamily(catalog) == KeepFirst(ControlEntries(catalog))

\* Mapper.buildControlDataMap: control id -> ControlData.
buildControlDataMap(catalog) == KeepLast(ControlEntries(catalog))

\* Mapper.extractRequirements: the ReferenceId of every entry of every mapping.
extractRequirements(mappings) ==
    Flatten([m \in 1 .. Len(mappings) |->
        [e \in 1 .. Len(mappings[m].Entries) |-> mappings[m].Entries[e].ReferenceId]])

\* An extraction that names each standard once.
extractStandardsOnce(mappings) ==
    LET kept == {m \in 1 .. Len(mappings) :
                    \A n \in 1 .. m - 1 : mappings[n].ReferenceId # mappings[m].ReferenceId}
        nth(i) == CHOOSE m \in kept : Cardinality({x \in kept : x < m}) = i - 1
    IN [i \in 1 .. Cardinality(kept) |-> mappings[nth(i)].ReferenceId]

\* Mapper.extractStandards: the ReferenceId of every mapping.
extractStandards(mappings) == [m \in 1 .. Len(mappings) |-> mappings[m].ReferenceId]

\* The metadata GetMetadata builds on a hit in catalog catalogId.
MappedMetadata(procedureInfo, ctrlData, catalogId) ==
    [Control |-> [Id |-> procedureInfo.RequirementID,
                  Category |-> ctrlData.Category,
                  RemediationDescription |-> procedureInfo.Documentation,
                  CatalogId |-> catalogId],
     Frameworks |-> [Requirements |-> extractRequirements(ctrlData.Mappings),
                     Frameworks |-> extractStandards(ctrlData.Mappings)]]

\* A fallback that leaves the control id at its zero value.
FallbackMetadataWithoutRuleId(policyRuleId) ==
    [Control |-> [Id |-> 0,
                  Category |-> "Unknown",
                  RemediationDescription |-> "nil",
                  CatalogId |-> "unknown"],
     Frameworks |-> [Requirements |-> <<>>, Frameworks |-> <<>>]]

\* The fallback metadata of GetMetadata (RemediationDescription is nil).
FallbackMetadata(policyRuleId) ==
    [Control |-> [Id |-> policyRuleId,
                  Category |-> "Unknown",
                  RemediationDescription |-> "nil",
                  CatalogId |-> "unknown"],
     Frameworks |-> [Requirements |-> <<>>, Frameworks |-> <<>>]]

\* Mapper.GetMetadata from the k-th catalog of the visit on: `order` is the
\* order in which this call's range over m.plans yields the catalog ids.
RECURSIVE GetMetadataFrom(_, _, _, _, _)
GetMetadataFrom(plans, policyRuleId, scope, order, k) ==
    IF k > Len(order)
    THEN [metadata |-> FallbackMetadata(policyRuleId), enrichmentStatus |-> Unmapped]
    ELSE LET catalogId == order[k]
             next == GetMetadataFrom(plans, policyRuleId, scope, order, k + 1)
         IN
         IF catalogId \notin DOMAIN scope
         THEN next
         ELSE LET proceduresById == buildProceduresMap(plans[catalogId])
                  controlData == buildControlDataMap(scope[catalogId])
              IN
              IF policyRuleId \notin DOMAIN proceduresById
              THEN next
              ELSE IF proceduresById[policyRuleId].ControlID \notin DOMAIN controlData
              THEN next
              ELSE [metadata |-> MappedMetadata(proceduresById[policyRuleId],
                                    controlData[proceduresById[policyRuleId].ControlID],
                                    catalogId),
                    enrichmentStatus |-> Success]

\* A GetMetadata that gives up after the first catalog it visits.
GetMetadataFirstVisitedOnly(plans, policyRuleId, scope, order) ==
    GetMetadataFrom(plans, policyRuleId, scope,
                    IF order = <<>> THEN order ELSE <<order[1]>>, 1)

\* Mapper.GetMetadata: (metadata, enrichment status).
GetMetadata(plans, policyRuleId, scope, order) ==
    GetMetadataFrom(plans, policyRuleId, scope, order, 1)

\* Mapper.CalculateStatus.
CalculateStatus(evidence) == mapDecision(evidence.PolicyEvaluationStatus)

\* The orders a range over a Go map with the keys of `plans` can take.
VisitOrders(plans) ==
    {order \in [1 .. Cardinality(DOMAIN plans) -> DOMAIN plans] :
        \A a, b \in DOMAIN order : a # b => order[a] # order[b]}

\* A registration that replaces the plans of the catalog id.
AddedPlansReplacing(plans, catalogId, added) ==
    [c \in DOMAIN plans \cup {catalogId} |->
        IF c = catalogId THEN added ELSE plans[c]]

\* Mapper.plans after AddEvaluationPlan(catalogId, added...).
AddedPlans(plans, catalogId, added) ==
    IF catalogId \notin DOMAIN plans
    THEN [c \in DOMAIN plans \cup {catalogId} |->
             IF c = catalogId THEN added ELSE plans[c]]
    ELSE [plans EXCEPT ![catalogId] = @ \o added]

\* applier.parseResult / applier.mapResult: the verdict the log processor's
\* applier derives from the evaluation result string.
mapResult(resultStr) ==
    CASE resultStr = "Passed" -> "COMPLIANT"
      [] resultStr = "Failed" -> "NON_COMPLIANT"
      [] resultStr \in {"Not Applicable", "Not Run"} -> "NOT_APPLICABLE"
      [] OTHER -> "UNKNOWN"

\* ---------------------------------------------------------------- state

VARIABLES
    cache,      \* CacheableClient.cache: rule id -> *ComplianceMetadata
    remoteVer,  \* the remote: version of the mapping of each rule id
    epoch,      \* history: how often the value under a key was placed or replaced
    doneOK,     \* history: rule ids some Retrieve has returned a result for
    calls,      \* history: number of calls started so far
    pc,         \* position of each caller in its current call
    cur,        \* per caller: arguments, locals and outcome of its current
                \* (pc # "idle") or last (pc = "idle") call
    set,        \* compass Service.set: mapper id -> Mapper.plans of that mapper
    scope,      \* compass Service.scope: catalog id -> catalog
    registrations,  \* history: number of AddEvaluationPlan calls so far
    reply,      \* history: the last compass operation, its input and result
    events,     \* proofwatch Store.events: evidence id -> EvidenceEvent
    mu          \* proofwatch Store.mu: the caller that holds the lock, or ""

clientVars == <<cache, remoteVer, epoch, doneOK, calls, pc, cur>>

compassVars == <<set, scope, registrations, reply>>

storeVars == <<events, mu>>

vars == <<cache, remoteVer, epoch, doneOK, calls, pc, cur,
          set, scope, registrations, reply, events, mu>>

EmptyCache == [x \in {} |-> NilMetadata]

NoCall == [op |-> "none"]

CanStart(p) == pc[p] = "idle" /\ calls < MaxCalls

\* ------------------------------------------------------------- Retrieve

StartRetrieve(p, evidence) ==
    /\ CanStart(p)
    /\ calls' = calls + 1
    /\ pc' = [pc EXCEPT ![p] = "r_get"]
    /\ cur' = [cur EXCEPT ![p] = [op |-> "Retrieve", ev |-> evidence,
                                  after |-> evidence.PolicyRuleId \in doneOK,
                                  hit |-> FALSE, sent |-> <<>>,
                                  metadata |-> NilMetadata, ok |-> FALSE]]
    /\ UNCHANGED <<cache, remoteVer, epoch, doneOK, compassVars, storeVars>>

\* c.cache.Get(evidence.PolicyRuleId); on a hit the rest of Retrieve is local.
RetrieveGet(p) ==
    /\ pc[p] = "r_get"
    /\ LET k == cur[p].ev.PolicyRuleId IN
       IF CacheFound(cache, k)
       THEN /\ pc' = [pc EXCEPT ![p] = "idle"]
            /\ cur' = [cur EXCEPT ![p] =
                          [op |-> "Retrieve", ev |-> cur[p].ev, after |-> cur[p].after,
                           hit |-> TRUE, sent |-> <<>>, metadata |-> cache[k],
                           ok |-> TRUE, out |-> Combine(cache[k], cur[p].ev),
                           epoch |-> epoch[k]]]
            /\ doneOK' = doneOK \cup {k}
       ELSE /\ pc' = [pc EXCEPT ![p] = "r_fetch"]
            /\ UNCHANGED <<cur, doneOK>>
    /\ UNCHANGED <<cache, remoteVer, epoch, calls, compassVars, storeVars>>

\* c.fetchMetadata(ctx, evidence.PolicyRuleId): the request, the remote's
\* answer and the error return of Retrieve.
RetrieveFetch(p, pat) ==
    /\ pc[p] = "r_fetch"
    /\ LET k == cur[p].ev.PolicyRuleId
           f == fetchMetadata(k, pat, remoteVer)
           req == <<[ids |-> <<k>>, answer |-> pat[1]]>>
       IN
       IF f.err
       THEN /\ pc' = [pc EXCEPT ![p] = "idle"]
            /\ cur' = [cur EXCEPT ![p].sent = req]
       ELSE /\ pc' = [pc EXCEPT ![p] = "r_set"]
            /\ cur' = [cur EXCEPT ![p].sent = req, ![p].metadata = f.metadata]
    /\ UNCHANGED <<cache, remoteVer, epoch, doneOK, calls, compassVars, storeVars>>

\* c.cache.Set(evidence.PolicyRuleId, metadata, NoExpiration) and the return.
RetrieveSet(p) ==
    /\ pc[p] = "r_set"
    /\ LET k == cur[p].ev.PolicyRuleId
           same == CacheFound(cache, k) /\ cache[k] = cur[p].metadata
           e == IF same THEN epoch[k] ELSE epoch[k] + 1
       IN
       /\ cache' = CacheSet(cache, k, cur[p].metadata)
       /\ epoch' = [epoch EXCEPT ![k] = e]
       /\ doneOK' = doneOK \cup {k}
       /\ pc' = [pc EXCEPT ![p] = "idle"]
       /\ cur' = [cur EXCEPT ![p] =
                     [op |-> "Retrieve", ev |-> cur[p].ev, after |-> cur[p].after,
                      hit |-> FALSE, sent |-> cur[p].sent, metadata |-> cur[p].metadata,
                      ok |-> TRUE, out |-> Combine(cur[p].metadata, cur[p].ev),
                      epoch |-> e]]
    /\ UNCHANGED <<remoteVer, calls, compassVars, storeVars>>

\* ------------------------------------------------------------- Prefetch

\* The step of the batch loop after a batch: i += batchSize, then the
\* next batch or the return of Prefetch (always nil).
AfterBatch(p, sent) ==
    LET i == cur[p].i + batchSize IN
    IF i < Len(cur[p].ids)
    THEN /\ pc' = [pc EXCEPT ![p] = "p_call"]
         /\ cur' = [cur EXCEPT ![p].i = i, ![p].sent = sent,
                               ![p].resp = <<>>, ![p].j = 0]
    ELSE /\ pc' = [pc EXCEPT ![p] = "idle"]
         /\ cur' = [cur EXCEPT ![p].i = i, ![p].sent = sent,
                               ![p].resp = <<>>, ![p].j = 0, ![p].ok = TRUE]

\* Prefetch returning at the first failed batch.
AbortOnBatchError(p, sent) ==
    /\ pc' = [pc EXCEPT ![p] = "idle"]
    /\ cur' = [cur EXCEPT ![p].sent = sent, ![p].resp = <<>>, ![p].j = 0,
                          ![p].ok = FALSE]

\* Prefetch when prefetchBatch returned an error: a warning is logged and
\* the loop goes on.
OnBatchError(p, sent) == AfterBatch(p, sent)

\* Prefetch that never takes the early return.
NothingToPrefetchNever(policyRuleIds) == FALSE

\* len(policyRuleIds) == 0: Prefetch returns nil before its batch loop.
NothingToPrefetch(policyRuleIds) == Len(policyRuleIds) = 0

StartPrefetch(p, evidenceList) ==
    /\ CanStart(p)
    /\ calls' = calls + 1
    /\ LET policyRuleIds == UniqueIds(evidenceList)
           empty == NothingToPrefetch(policyRuleIds)
       IN
       /\ pc' = [pc EXCEPT ![p] = IF empty THEN "idle" ELSE "p_call"]
       /\ cur' = [cur EXCEPT ![p] = [op |-> "Prefetch", input |-> evidenceList,
                                     ids |-> policyRuleIds, i |-> 0,
                                     sent |-> <<>>, resp |-> <<>>, j |-> 0,
                                     ok |-> empty, cache0 |-> cache]]
    /\ UNCHANGED <<cache, remoteVer, epoch, doneOK, compassVars, storeVars>>

\* prefetchBatch up to the response: the batch policyRuleIds[i:end] is sent.
PrefetchCall(p, pat) ==
    /\ pc[p] = "p_call"
    /\ LET batch == SubSeq(cur[p].ids, cur[p].i + 1, BatchEnd(cur[p].i, Len(cur[p].ids)))
           resp == callBatchMetadata(batch, pat, remoteVer)
           good == {resp.Results[k].PolicyRuleId : k \in
                       {n \in 1 .. Len(resp.Results) : OutcomeAt(pat, n) = "ok"}}
           sent == Append(cur[p].sent,
                          [ids |-> batch, failed |-> resp.err, good |-> good])
       IN
       IF resp.err
       THEN OnBatchError(p, sent)
       ELSE IF Len(resp.Results) = 0
       THEN AfterBatch(p, sent)
       ELSE /\ pc' = [pc EXCEPT ![p] = "p_store"]
            /\ cur' = [cur EXCEPT ![p].sent = sent, ![p].resp = resp.Results, ![p].j = 0]
    /\ UNCHANGED <<cache, remoteVer, epoch, doneOK, calls, compassVars, storeVars>>

\* One round of prefetchBatch's loop over resp.Results.
PrefetchStore(p) ==
    /\ pc[p] = "p_store"
    /\ LET result == cur[p].resp[cur[p].j + 1]
           k == result.PolicyRuleId
       IN
       /\ IF Cacheable(result)
          THEN /\ cache' = CacheSet(cache, k, result.Metadata)
               /\ epoch' = [epoch EXCEPT ![k] =
                               IF CacheFound(cache, k) /\ cache[k] = result.Metadata
                               THEN @ ELSE @ + 1]
          ELSE UNCHANGED <<cache, epoch>>
       /\ IF cur[p].j + 1 = Len(cur[p].resp)
          THEN AfterBatch(p, cur[p].sent)
          ELSE /\ cur' = [cur EXCEPT ![p].j = @ + 1]
               /\ UNCHANGED pc
    /\ UNCHANGED <<remoteVer, doneOK, calls, compassVars, storeVars>>

\* ----------------------------------------------------------- the remote

\* The remote's plans change (a mapping is registered for rule r).
RemoteChange(r) ==
    /\ remoteVer[r] < MaxVersion
    /\ remoteVer' = [remoteVer EXCEPT ![r] = @ + 1]
    /\ UNCHANGED <<cache, epoch, doneOK, calls, pc, cur, compassVars, storeVars>>

\* -------------------------------------------------- compass: the service

\* A Mapper fresh from NewBasicMapper: no plans under any catalog id.
NewBasicMapper == [c \in {} |-> <<>>]

NoReply == [op |-> "none"]

\* A request body that ShouldBindJSON / Bind rejects.
Malformed == [malformed |-> TRUE]

\* A policy reference of a batch: the rule id and the engine that evaluated it.
Policy(policyRuleId, engine) ==
    [PolicyRuleId |-> policyRuleId, PolicyEngineName |-> engine]

\* The visit order of the k-th lookup of a request: orders[1] for the odd
\* positions, orders[2] for the even ones.
OrderAt(orders, k) == IF k % 2 = 1 THEN orders[1] ELSE orders[2]

\* The specification follows one request from each state of the plans: no
\* request has been observed since the mappers were made or last changed.
Fresh == reply.op \in {"none", "AddEvaluationPlan"}

\* The GetMetadata call just observed may be made again.
Repeatable(id, policyRuleId) ==
    /\ reply.op = "GetMetadata"
    /\ reply.id = id /\ reply.policyRuleId = policyRuleId
    /\ reply.repeats < MaxRepeats

\* Mapper.AddEvaluationPlan on the mapper registered under id.
AddEvaluationPlan(id, catalogId, added) ==
    /\ id \in DOMAIN set
    /\ registrations < MaxRegistrations
    /\ registrations' = registrations + 1
    /\ set' = [set EXCEPT ![id] = AddedPlans(@, catalogId, added)]
    /\ reply' = [op |-> "AddEvaluationPlan"]
    /\ UNCHANGED <<scope, clientVars, storeVars>>

\* A call of GetMetadata on the mapper registered under id.
GetMetadataCall(id, policyRuleId) ==
    /\ id \in DOMAIN set
    /\ Fresh \/ Repeatable(id, policyRuleId)
    /\ \E order \in VisitOrders(set[id]) :
          LET got == GetMetadata(set[id], policyRuleId, scope, order) IN
          reply' = [op |-> "GetMetadata", id |-> id, policyRuleId |-> policyRuleId,
                    repeats |-> IF Fresh THEN 0 ELSE reply.repeats + 1,
                    order |-> order, metadata |-> got.metadata,
                    enrichmentStatus |-> got.enrichmentStatus]
    /\ UNCHANGED <<set, scope, registrations, clientVars, storeVars>>

\* A call of CalculateStatus on the mapper registered under id.
CalculateStatusCall(id, evidence) ==
    /\ id \in DOMAIN set
    /\ Fresh
    /\ reply' = [op |-> "CalculateStatus", id |-> id, evidence |-> evidence,
                 status |-> CalculateStatus(evidence)]
    /\ UNCHANGED <<set, scope, registrations, clientVars, storeVars>>

\* service.enrich: static metadata and recalculated status, combined.
enrich(rawEnv, plans, order) ==
    LET got == GetMetadata(plans, rawEnv.PolicyRuleId, scope, order) IN
    [Control |-> got.metadata.Control,
     Frameworks |-> got.metadata.Frameworks,
     Risk |-> "nil",
     Status |-> CalculateStatus(rawEnv),
     EnrichmentStatus |-> got.enrichmentStatus]

\* A fallback that borrows the plans of a mapper held in the set.
MapperPlansBorrowed(via) ==
    IF via # "" THEN set[via]
    ELSE IF DOMAIN set = {} THEN NewBasicMapper
    ELSE set[CHOOSE id \in DOMAIN set : \A other \in DOMAIN set : set[other] = NewBasicMapper
                                            \/ set[id] # NewBasicMapper]

\* The plans of the mapper a handler works with: those of the mapper found
\* in the set under key via, or of a new basic mapper ("": the fallback).
MapperPlans(via) == IF via = "" THEN NewBasicMapper ELSE set[via]

\* The key under which PostV1Enrich finds its mapper, "" for the fallback.
EnrichMapperAlwaysBasic(evidence) ==
    IF BasicID \in DOMAIN set THEN BasicID ELSE ""

\* The key under which PostV1Enrich finds its mapper, "" for the fallback.
EnrichMapper(evidence) ==
    IF evidence.PolicyEngineName \in DOMAIN set THEN evidence.PolicyEngineName ELSE ""

\* Service.PostV1Enrich.
PostV1Enrich(body) ==
    /\ Fresh
    /\ IF body = Malformed
       THEN reply' = [op |-> "PostV1Enrich", body |-> body, code |-> 400, via |-> "none"]
       ELSE LET via == EnrichMapper(body)
                plans == MapperPlans(via)
            IN \E order \in VisitOrders(plans) :
                  reply' = [op |-> "PostV1Enrich", body |-> body, code |-> 200,
                            via |-> via, order |-> order,
                            Compliance |-> enrich(body, plans, order)]
    /\ UNCHANGED <<set, scope, registrations, clientVars, storeVars>>

\* A handler whose items all get the metadata resolved for the first.
BatchResultsOfFirst(PolicyRuleIds, plans, orders) ==
    [i \in 1 .. Len(PolicyRuleIds) |->
        [Index |-> i - 1,
         PolicyRuleId |-> PolicyRuleIds[i],
         Metadata |-> GetMetadata(plans, PolicyRuleIds[1], scope,
                                  OrderAt(orders, 1)).metadata,
         Error |-> FALSE]]

\* The results of the handler's loop over req.PolicyRuleIds, cut short.
BatchResultsButLast(PolicyRuleIds, plans, orders) ==
    [i \in 1 .. Len(PolicyRuleIds) - 1 |->
        [Index |-> i - 1,
         PolicyRuleId |-> PolicyRuleIds[i],
         Metadata |-> GetMetadata(plans, PolicyRuleIds[i], scope,
                                  OrderAt(orders, i)).metadata,
         Error |-> FALSE]]

\* The results of the handler's loop over req.PolicyRuleIds.
BatchResults(PolicyRuleIds, plans, orders) ==
    [i \in 1 .. Len(PolicyRuleIds) |->
        [Index |-> i - 1,
         PolicyRuleId |-> PolicyRuleIds[i],
         Metadata |-> GetMetadata(plans, PolicyRuleIds[i], scope,
                                  OrderAt(orders, i)).metadata,
         Error |-> FALSE]]

\* A handler that takes an empty list like any other.
RejectsEmptyNever(PolicyRuleIds) == FALSE

\* len(req.PolicyRuleIds) == 0: the request is answered 400.
RejectsEmpty(PolicyRuleIds) == Len(PolicyRuleIds) = 0

\* Service.PostV1MetadataBatch.  The body carries the rule ids of the policy
\* references only; `policies` keeps the references they were taken from.
PostV1MetadataBatch(malformed, policies) ==
    /\ Fresh
    /\ LET PolicyRuleIds == [k \in 1 .. Len(policies) |-> policies[k].PolicyRuleId]
           via == IF BasicID \in DOMAIN set THEN BasicID ELSE ""
           plans == MapperPlans(via)
       IN
       IF malformed \/ RejectsEmpty(PolicyRuleIds)
       THEN reply' = [op |-> "PostV1MetadataBatch", policies |-> policies,
                      malformed |-> malformed, code |-> 400, via |-> "none",
                      lookups |-> 0]
       ELSE \E orders \in VisitOrders(plans) \X VisitOrders(plans) :
               LET results == BatchResults(PolicyRuleIds, plans, orders)
                   successCount == Len(results)
               IN reply' = [op |-> "PostV1MetadataBatch", policies |-> policies,
                            malformed |-> malformed, code |-> 200, via |-> via,
                            lookups |-> Len(results), orders |-> orders,
                            Results |-> results,
                            Summary |-> [Total |-> Len(PolicyRuleIds),
                                         Success |-> successCount,
                                         Failed |-> Len(PolicyRuleIds) - successCount]]
    /\ UNCHANGED <<set, scope, registrations, clientVars, storeVars>>

\* ------------------------------------- the client against the service

\* The client's *ComplianceMetadata decoded from the JSON of the handler's
\* api.ComplianceMetadata: a field the handler left unset arrives as the
\* zero value.
DecodeMetadata(metadata) ==
    [Control |-> metadata.Control,
     Frameworks |-> metadata.Frameworks,
     Risk |-> IF "Risk" \in DOMAIN metadata THEN metadata.Risk ELSE "nil",
     EnrichmentStatus |-> IF "EnrichmentStatus" \in DOMAIN metadata
                          THEN metadata.EnrichmentStatus ELSE ""]

\* callBatchMetadata against Service.PostV1MetadataBatch: a 400 answer has
\* no JSON200 and is an error, a 200 answer is decoded result by result.
callBatchMetadataOnService(req, orders) ==
    LET via == IF BasicID \in DOMAIN set THEN BasicID ELSE ""
        results == BatchResults(req, MapperPlans(via), orders)
    IN IF RejectsEmpty(req)
       THEN [err |-> TRUE, Results |-> <<>>]
       ELSE [err |-> FALSE,
             Results |-> [k \in 1 .. Len(results) |->
                             [Index |-> results[k].Index,
                              PolicyRuleId |-> results[k].PolicyRuleId,
                              Metadata |-> DecodeMetadata(results[k].Metadata),
                              Error |-> results[k].Error]]]

\* fetchMetadata with the request answered by the service.
fetchMetadataOnService(policyRuleId, orders) ==
    LET resp == callBatchMetadataOnService(<<policyRuleId>>, orders) IN
    IF resp.err THEN [err |-> TRUE, metadata |-> NilMetadata]
    ELSE IF Len(resp.Results) = 0 THEN [err |-> TRUE, metadata |-> NilMetadata]
    ELSE IF resp.Results[1].Error THEN [err |-> TRUE, metadata |-> NilMetadata]
    ELSE IF resp.Results[1].Metadata = NilMetadata
    THEN [err |-> TRUE, metadata |-> NilMetadata]
    ELSE [err |-> FALSE, metadata |-> resp.Results[1].Metadata]

\* The visit orders of the lookups of one request to the handler.
ServiceOrders ==
    LET plans == MapperPlans(IF BasicID \in DOMAIN set THEN BasicID ELSE "")
    IN VisitOrders(plans) \X VisitOrders(plans)

\* c.fetchMetadata(ctx, evidence.PolicyRuleId) against the service.
RetrieveFetchService(p) ==
    /\ pc[p] = "r_fetch"
    /\ \E orders \in ServiceOrders :
          LET k == cur[p].ev.PolicyRuleId
              f == fetchMetadataOnService(k, orders)
              req == <<[ids |-> <<k>>, answer |-> IF f.err THEN "fail" ELSE "ok"]>>
          IN
          IF f.err
          THEN /\ pc' = [pc EXCEPT ![p] = "idle"]
               /\ cur' = [cur EXCEPT ![p].sent = req]
          ELSE /\ pc' = [pc EXCEPT ![p] = "r_set"]
               /\ cur' = [cur EXCEPT ![p].sent = req, ![p].metadata = f.metadata]
    /\ UNCHANGED <<cache, remoteVer, epoch, doneOK, calls, compassVars, storeVars>>

\* prefetchBatch up to the response, against the service.
PrefetchCallService(p) ==
    /\ pc[p] = "p_call"
    /\ \E orders \in ServiceOrders :
          LET batch == SubSeq(cur[p].ids, cur[p].i + 1,
                              BatchEnd(cur[p].i, Len(cur[p].ids)))
              resp == callBatchMetadataOnService(batch, orders)
              good == {resp.Results[k].PolicyRuleId : k \in
                          {n \in 1 .. Len(resp.Results) : Cacheable(resp.Results[n])}}
              sent == Append(cur[p].sent,
                             [ids |-> batch, failed |-> resp.err, good |-> good])
          IN
          IF resp.err
          THEN OnBatchError(p, sent)
          ELSE IF Len(resp.Results) = 0
          THEN AfterBatch(p, sent)
          ELSE /\ pc' = [pc EXCEPT ![p] = "p_store"]
               /\ cur' = [cur EXCEPT ![p].sent = sent, ![p].resp = resp.Results,
                                     ![p].j = 0]
    /\ UNCHANGED <<cache, remoteVer, epoch, doneOK, calls, compassVars, storeVars>>

\* A concurrent map iteration and map write makes the Go runtime end the
\* process ("fatal"): no caller takes another step.
Running == \A p \in Procs : pc[p] # "fatal"

\* ------------------------------- compass: the mapper's steps, interleaved

\* The mapper has no lock: AddEvaluationPlan and GetMetadata on the "basic"
\* mapper, each a sequence of accesses to m.plans.

\* Mapper.AddEvaluationPlan is called.
StartAddEvaluationPlan(p, catalogId, added) ==
    /\ CanStart(p) /\ Running
    /\ calls' = calls + 1
    /\ pc' = [pc EXCEPT ![p] = "ap_read"]
    /\ cur' = [cur EXCEPT ![p] = [op |-> "AddEvaluationPlan",
                                  catalogId |-> catalogId, added |-> added]]
    /\ UNCHANGED <<cache, remoteVer, epoch, doneOK, compassVars, storeVars>>

\* existingPlans, ok := m.plans[catalogId].
AddEvaluationPlanRead(p) ==
    /\ pc[p] = "ap_read" /\ Running
    /\ pc' = [pc EXCEPT ![p] = "ap_write"]
    /\ cur' = [cur EXCEPT ![p] =
                  [op |-> "AddEvaluationPlan", catalogId |-> cur[p].catalogId,
                   added |-> cur[p].added,
                   ok |-> cur[p].catalogId \in DOMAIN set[BasicID],
                   existingPlans |-> IF cur[p].catalogId \in DOMAIN set[BasicID]
                                    THEN set[BasicID][cur[p].catalogId]
                                    ELSE <<>>]]
    /\ UNCHANGED <<cache, remoteVer, epoch, doneOK, calls, compassVars, storeVars>>

\* m.plans[catalogId] = plans, or = append(existingPlans, plans...), and
\* the return.  A caller that is ranging over m.plans at this moment is in
\* a data race: its range may or may not come to yield the written key,
\* and the runtime may end the process.
AddEvaluationPlanWrite(p) ==
    /\ pc[p] = "ap_write" /\ Running
    /\ LET catalogId == cur[p].catalogId
           written == IF cur[p].ok THEN cur[p].existingPlans \o cur[p].added
                      ELSE cur[p].added
       IN
       /\ set' = [set EXCEPT ![BasicID] =
                     [c \in DOMAIN @ \cup {catalogId} |->
                         IF c = catalogId THEN written ELSE @[c]]]
       /\ \E see \in BOOLEAN :
             cur' = [q \in Procs |->
                        IF pc[q] = "g_range"
                        THEN [cur[q] EXCEPT !.raced = TRUE,
                                            !.todo = IF see THEN @ \cup {catalogId}
                                                     ELSE @]
                        ELSE cur[q]]
    /\ registrations' = registrations + 1
    /\ pc' = [pc EXCEPT ![p] = "idle"]
    /\ UNCHANGED <<cache, remoteVer, epoch, doneOK, calls, scope, reply, storeVars>>

\* Mapper.GetMetadata is called: the range over m.plans starts.
StartGetMetadata(p, policyRuleId) ==
    /\ CanStart(p) /\ Running
    /\ calls' = calls + 1
    /\ pc' = [pc EXCEPT ![p] = "g_range"]
    /\ cur' = [cur EXCEPT ![p] = [op |-> "GetMetadata", policyRuleId |-> policyRuleId,
                                  plans0 |-> set[BasicID], todo |-> DOMAIN set[BasicID],
                                  raced |-> FALSE, got |-> NilMetadata]]
    /\ UNCHANGED <<cache, remoteVer, epoch, doneOK, compassVars, storeVars>>

\* One round of GetMetadata's range over m.plans (a return on a hit), or
\* its end and the return of the fallback.
GetMetadataNext(p) ==
    /\ pc[p] = "g_range" /\ Running
    /\ \/ /\ cur[p].raced
          /\ pc' = [pc EXCEPT ![p] = "fatal"]
          /\ UNCHANGED cur
       \/ /\ cur[p].todo = {}
          /\ pc' = [pc EXCEPT ![p] = "idle"]
          /\ cur' = [cur EXCEPT ![p].got =
                        GetMetadata(NewBasicMapper, cur[p].policyRuleId, scope, <<>>)]
       \/ \E catalogId \in cur[p].todo :
             LET got == GetMetadata([c \in {catalogId} |-> set[BasicID][c]],
                                    cur[p].policyRuleId, scope, <<catalogId>>)
             IN IF got.enrichmentStatus = Success
                THEN /\ pc' = [pc EXCEPT ![p] = "idle"]
                     /\ cur' = [cur EXCEPT ![p].got = got]
                ELSE /\ cur' = [cur EXCEPT ![p].todo = @ \ {catalogId}]
                     /\ UNCHANGED pc
    /\ UNCHANGED <<cache, remoteVer, epoch, doneOK, calls, compassVars, storeVars>>

\* -------------------------------------------------- truthbeam: processLogs

\* A log record is its attribute map, keyed by the names of the attribute
\* constants of package client.
LogRecord(attrs) == attrs

\* pcommon.Map.PutStr / PutEmptySlice with its appends: an upsert.
Put(attrs, key, value) ==
    [a \in DOMAIN attrs \cup {key} |-> IF a = key THEN value ELSE attrs[a]]

\* Applier.ExtractEvidence: the three lookup attributes, or an error.
ExtractEvidence(logRecord) ==
    IF "POLICY_RULE_ID" \notin DOMAIN logRecord THEN [err |-> TRUE]
    ELSE IF "POLICY_ENGINE_NAME" \notin DOMAIN logRecord THEN [err |-> TRUE]
    ELSE IF "POLICY_EVALUATION_RESULT" \notin DOMAIN logRecord THEN [err |-> TRUE]
    ELSE [err |-> FALSE,
          evidence |-> Evidence(logRecord.POLICY_RULE_ID,
                                logRecord.POLICY_ENGINE_NAME,
                                logRecord.POLICY_EVALUATION_RESULT)]

\* Applier.ApplyEnrichment on a non-nil response.
ApplyEnrichment(logRecord, compliance) ==
    LET a1 == Put(logRecord, "COMPLIANCE_STATUS", compliance.Status)
        a2 == Put(a1, "COMPLIANCE_CONTROL_ID", compliance.Control.Id)
        a3 == Put(a2, "COMPLIANCE_CONTROL_CATALOG_ID", compliance.Control.CatalogId)
        a4 == Put(a3, "COMPLIANCE_CONTROL_CATEGORY", compliance.Control.Category)
        a5 == Put(a4, "COMPLIANCE_REQUIREMENTS", compliance.Frameworks.Requirements)
        a6 == Put(a5, "COMPLIANCE_FRAMEWORKS", compliance.Frameworks.Frameworks)
    IN IF "RemediationDescription" \in DOMAIN compliance.Control
       THEN Put(a6, "COMPLIANCE_REMEDIATION_DESCRIPTION",
                compliance.Control.RemediationDescription)
       ELSE a6

\* CacheableClient.Retrieve as one call: the cache after it and the
\* EnrichmentResponse or the error it returns.
Retrieve(c, evidence, pat, ver) ==
    IF CacheFound(c, evidence.PolicyRuleId)
    THEN [err |-> FALSE, cache |-> c,
          Compliance |-> Combine(c[evidence.PolicyRuleId], evidence)]
    ELSE LET f == fetchMetadata(evidence.PolicyRuleId, pat, ver) IN
         IF f.err THEN [err |-> TRUE, cache |-> c]
         ELSE [err |-> FALSE,
               cache |-> CacheSet(c, evidence.PolicyRuleId, f.metadata),
               Compliance |-> Combine(f.metadata, evidence)]

\* The positions <<i, j, k>> the three loops of processLogs visit.
LogPositions(ld) ==
    {<<i, j, k>> \in (1 .. Len(ld)) \X (1 .. MaxLogRecords) \X (1 .. MaxLogRecords) :
        /\ j <= Len(ld[i])
        /\ k <= Len(ld[i][j])}

\* The n-th position in loop order.
LogPositionAt(ld, n) ==
    CHOOSE x \in LogPositions(ld) :
        Cardinality({y \in LogPositions(ld) :
                        \/ y[1] < x[1]
                        \/ y[1] = x[1] /\ y[2] < x[2]
                        \/ y[1] = x[1] /\ y[2] = x[2] /\ y[3] < x[3]}) = n - 1

\* A loop that ends at the first record it cannot enrich.
AfterRecordStopping(ld, n, failed) ==
    IF failed THEN Cardinality(LogPositions(ld)) + 1 ELSE n + 1

\* The loop's next round: `continue` after a failure, the end of the body
\* otherwise.
AfterRecord(ld, n, failed) == n + 1

\* processLogs is called on a started processor.
StartProcessLogs(p, ld) ==
    /\ pc[p] = "idle" /\ calls < MaxLogCalls
    /\ calls' = calls + 1
    /\ pc' = [pc EXCEPT ![p] = "pl_loop"]
    /\ cur' = [cur EXCEPT ![p] = [op |-> "processLogs", in |-> ld, ld |-> ld, n |-> 1,
                                  unextracted |-> {}, unretrieved |-> {},
                                  returned |-> FALSE, err |-> FALSE]]
    /\ UNCHANGED <<cache, remoteVer, epoch, doneOK, compassVars, storeVars>>

\* One round of the innermost loop, on the record at the n-th position.
ProcessLogRecord(p, pat) ==
    /\ pc[p] = "pl_loop"
    /\ cur[p].n <= Cardinality(LogPositions(cur[p].ld))
    /\ LET ld == cur[p].ld
           n == cur[p].n
           at == LogPositionAt(ld, n)
           logRecord == ld[at[1]][at[2]][at[3]]
           e == ExtractEvidence(logRecord)
       IN
       IF e.err
       THEN /\ cur' = [cur EXCEPT ![p].n = AfterRecord(ld, n, TRUE),
                                  ![p].unextracted = @ \cup {at}]
            /\ UNCHANGED cache
       ELSE LET r == Retrieve(cache, e.evidence, pat, remoteVer) IN
            IF r.err
            THEN /\ cur' = [cur EXCEPT ![p].n = AfterRecord(ld, n, TRUE),
                                       ![p].unretrieved = @ \cup {at}]
                 /\ UNCHANGED cache
            ELSE /\ cur' = [cur EXCEPT
                              ![p].n = AfterRecord(ld, n, FALSE),
                              ![p].ld = [ld EXCEPT ![at[1]][at[2]][at[3]] =
                                           ApplyEnrichment(logRecord, r.Compliance)]]
                 /\ cache' = r.cache
    /\ UNCHANGED <<remoteVer, epoch, doneOK, calls, pc, compassVars, storeVars>>

\* return ld, nil.
ProcessLogsReturn(p) ==
    /\ pc[p] = "pl_loop"
    /\ cur[p].n > Cardinality(LogPositions(cur[p].ld))
    /\ pc' = [pc EXCEPT ![p] = "idle"]
    /\ cur' = [cur EXCEPT ![p].returned = TRUE, ![p].err = FALSE]
    /\ UNCHANGED <<cache, remoteVer, epoch, doneOK, calls, compassVars, storeVars>>

\* ------------------------------------------- proofwatch: evidence Store

\* The evidence ids and decisions of the events handed to Store.Add.
EvidenceIds == {"ev-1", "ev-2"}

EvidenceEvent(id, decision) == [Evidence |-> [ID |-> id, Decision |-> decision]]

StoreEvents ==
    {EvidenceEvent(id, decision) :
        id \in EvidenceIds, decision \in {"COMPLIANT", "NOT_COMPLIANT"}}

CanStartStoreCall(p) == pc[p] = "idle" /\ calls < MaxStoreCalls /\ Running

\* Store.Add is called.
StartAdd(p, event) ==
    /\ CanStartStoreCall(p)
    /\ calls' = calls + 1
    /\ pc' = [pc EXCEPT ![p] = "a_lock"]
    /\ cur' = [cur EXCEPT ![p] = [op |-> "Add", event |-> event]]
    /\ UNCHANGED <<cache, remoteVer, epoch, doneOK, compassVars, storeVars>>

\* s.mu.Lock().
AddLock(p) ==
    /\ pc[p] = "a_lock" /\ Running
    /\ mu = ""
    /\ mu' = p
    /\ pc' = [pc EXCEPT ![p] = "a_write"]
    /\ UNCHANGED <<cache, remoteVer, epoch, doneOK, calls, cur, compassVars, events>>

\* s.events[event.Evidence.ID] = event.  A caller that is ranging over the
\* map at this moment is in a data race: its iteration may or may not come
\* to yield the written key, and the runtime may end the process.
AddWrite(p) ==
    /\ pc[p] = "a_write" /\ Running
    /\ LET id == cur[p].event.Evidence.ID IN
       /\ events' = [x \in DOMAIN events \cup {id} |->
                        IF x = id THEN cur[p].event ELSE events[x]]
       /\ \E see \in BOOLEAN :
             cur' = [q \in Procs |->
                        IF pc[q] = "e_range"
                        THEN [cur[q] EXCEPT !.raced = TRUE,
                                            !.todo = IF see THEN @ \cup {id} ELSE @]
                        ELSE cur[q]]
    /\ pc' = [pc EXCEPT ![p] = "a_unlock"]
    /\ UNCHANGED <<cache, remoteVer, epoch, doneOK, calls, compassVars, mu>>

\* s.mu.Unlock() and the return of Add.
AddUnlock(p) ==
    /\ pc[p] = "a_unlock" /\ Running
    /\ mu' = ""
    /\ pc' = [pc EXCEPT ![p] = "idle"]
    /\ UNCHANGED <<cache, remoteVer, epoch, doneOK, calls, cur, compassVars, events>>

\* Store.Events is called (by the gauge callback).
StartEvents(p) ==
    /\ CanStartStoreCall(p)
    /\ calls' = calls + 1
    /\ pc' = [pc EXCEPT ![p] = "e_len"]
    /\ cur' = [cur EXCEPT ![p] = [op |-> "Events"]]
    /\ UNCHANGED <<cache, remoteVer, epoch, doneOK, compassVars, storeVars>>

\* make([]EvidenceEvent, 0, len(s.events)) and the start of the range over
\* s.events; the lock is not taken.
EventsLen(p) ==
    /\ pc[p] = "e_len" /\ Running
    /\ pc' = [pc EXCEPT ![p] = "e_range"]
    /\ cur' = [cur EXCEPT ![p] = [op |-> "Events", cap |-> Cardinality(DOMAIN events),
                                  todo |-> DOMAIN events, out |-> <<>>,
                                  raced |-> FALSE]]
    /\ UNCHANGED <<cache, remoteVer, epoch, doneOK, calls, compassVars, storeVars>>

\* One round of the range over s.events, or its end and the return.
EventsNext(p) ==
    /\ pc[p] = "e_range" /\ Running
    /\ \/ /\ cur[p].raced
          /\ pc' = [pc EXCEPT ![p] = "fatal"]
          /\ UNCHANGED cur
       \/ /\ cur[p].todo = {}
          /\ pc' = [pc EXCEPT ![p] = "idle"]
          /\ UNCHANGED cur
       \/ /\ \E k \in cur[p].todo :
                cur' = [cur EXCEPT ![p].todo = @ \ {k},
                                   ![p].out = Append(@, events[k])]
          /\ UNCHANGED pc
    /\ UNCHANGED <<cache, remoteVer, epoch, doneOK, calls, compassVars, storeVars>>

\* ------------------------------------------------------- specifications

\* Patterns that differ in the first result only (a single-id request).
SinglePatterns == {pat \in ResponsePatterns : pat[1] = pat[2]}

\* The answers to the batch requests of the small specification: every
\* item outcome occurs at an odd and at an even position.
SmallPatterns ==
    {pat \in ResponsePatterns : pat[1] = pat[2] \/ "ok" \in {pat[1], pat[2]}}

\* The evaluation outcomes of the evidence handed to Retrieve.
RetrieveStatuses == {Passed, Failed, NotRun}

RECURSIVE SeqsUpTo(_, _)
SeqsUpTo(S, n) ==
    IF n = 0 THEN {<<>>}
    ELSE LET shorter == SeqsUpTo(S, n - 1)
         IN shorter \cup {Append(s, x) : s \in {t \in shorter : Len(t) = n - 1}, x \in S}

EngineAt(k) == EngineNames[((k - 1) % Len(EngineNames)) + 1]

\* The evidence lists of the small specification: rule ids in any order,
\* with repeats, engine names alternating.
SmallLists ==
    {[k \in 1 .. Len(s) |-> Evidence(s[k], EngineAt(k), Passed)] :
        s \in SeqsUpTo(RuleIds, MaxListLen)}

\* The client specifications leave the remote abstract: no compass service.
NoCompass ==
    /\ set = <<>>
    /\ scope = <<>>
    /\ registrations = 0
    /\ reply = NoReply

\* evidence.NewStore: no events, the lock free.
NewStore ==
    /\ events = <<>>
    /\ mu = ""

\* The evidence handed to Retrieve in the small specification.
SmallEvidence ==
    {Evidence(r, EngineAt(r), s) : r \in RuleIds, s \in RetrieveStatuses}

Init ==
    /\ cache = EmptyCache
    /\ remoteVer = [r \in RuleIds |-> 0]
    /\ epoch = [r \in RuleIds |-> 0]
    /\ doneOK = {}
    /\ calls = 0
    /\ pc = [p \in Procs |-> "idle"]
    /\ cur = [p \in Procs |-> NoCall]
    /\ NoCompass
    /\ NewStore

Next ==
    \/ \E p \in Procs, evidence \in SmallEvidence : StartRetrieve(p, evidence)
    \/ \E p \in Procs : RetrieveGet(p)
    \/ \E p \in Procs, pat \in SinglePatterns : RetrieveFetch(p, pat)
    \/ \E p \in Procs : RetrieveSet(p)
    \/ \E p \in Procs, l \in SmallLists : StartPrefetch(p, l)
    \/ \E p \in Procs, pat \in SmallPatterns : PrefetchCall(p, pat)
    \/ \E p \in Procs : PrefetchStore(p)
    \/ \E r \in RuleIds : RemoteChange(r)

Spec == Init /\ [][Next]_vars

\* The batch specification: one caller, one Prefetch call over lists long
\* enough for several batches.  It starts from the state a client is in
\* after earlier calls: the cache empty, or holding for the rule ids of
\* RuleIds the fallback metadata retrieved before the remote mapped them.

BatchPatterns ==
    {<<"fail", "fail">>, <<"empty", "empty">>, <<"ok", "ok">>,
     <<"ok", "error">>, <<"nometa", "ok">>, <<"errmeta", "ok">>}

BatchLengths ==
    {n \in 0 .. MaxEvidence :
        n % batchSize \in {0, 1, batchSize - 1} \/ n = MaxEvidence}

BatchShapes == {"descending", "paired", "wrapped"}

\* An evidence list with n rule ids: ids n..1 once each; ids 1..n each
\* twice in a row under different engine names; ids 1..batchSize+1 over
\* and over.
BatchList(shape, n) ==
    CASE shape = "descending" ->
            [k \in 1 .. n |-> Evidence(n + 1 - k, EngineAt(k), Passed)]
      [] shape = "paired" ->
            [k \in 1 .. 2 * n |-> Evidence((k + 1) \div 2, EngineAt(k), Failed)]
      [] shape = "wrapped" ->
            [k \in 1 .. n |-> Evidence(((k - 1) % (batchSize + 1)) + 1,
                                       EngineAt(k \div 3 + 1), Passed)]

\* The evidence lists of the batch specification.
BatchLists == {BatchList(shape, n) : shape \in BatchShapes, n \in BatchLengths}

BatchCaller == "p1"

InitBatch ==
    /\ \/ cache = EmptyCache /\ doneOK = {}
       \/ cache = [r \in RuleIds |-> MetadataOf(r, 0)] /\ doneOK = RuleIds
    /\ remoteVer = [r \in 1 .. MaxEvidence |-> 1]
    /\ epoch = [r \in 1 .. MaxEvidence |-> IF r \in DOMAIN cache THEN 1 ELSE 0]
    /\ calls = MaxCalls - 1
    /\ pc = [p \in Procs |-> "idle"]
    /\ cur = [p \in Procs |-> NoCall]
    /\ NoCompass
    /\ NewStore

NextBatch ==
    \/ \E evidenceList \in BatchLists : StartPrefetch(BatchCaller, evidenceList)
    \/ \E pat \in BatchPatterns : PrefetchCall(BatchCaller, pat)
    \/ PrefetchStore(BatchCaller)

SpecBatch == InitBatch /\ [][NextBatch]_vars

\* ------------------------------------------------------------ properties

\* The compass specification: a Service made by NewService over a set of
\* freshly made mappers and a scope; plans are registered on the mappers,
\* the mappers are called and the handlers answer requests.

AssessmentProcedure(id, documentation) == [Id |-> id, Documentation |-> documentation]

Assessment(requirementId, procedures) ==
    [Requirement |-> [EntryId |-> requirementId], Procedures |-> procedures]

AssessmentPlan(controlId, assessments) ==
    [Control |-> [EntryId |-> controlId], Assessments |-> assessments]

\* Rule 1 under control AC.
PlanAC ==
    AssessmentPlan("AC", <<Assessment(101, <<AssessmentProcedure(1, "doc-1")>>)>>)

\* Rules 1 and 2 under control ZZ, which no catalog has.
PlanZZ ==
    AssessmentPlan("ZZ", <<Assessment(102, <<AssessmentProcedure(1, "doc-2"),
                                            AssessmentProcedure(2, "doc-3")>>)>>)

\* Rule 2 under control CM, in two requirements.
PlanCM ==
    AssessmentPlan("CM", <<Assessment(103, <<AssessmentProcedure(2, "doc-4")>>),
                           Assessment(104, <<AssessmentProcedure(2, "doc-5")>>)>>)

\* The variadic plans argument of AddEvaluationPlan.
PlanLists == {<<>>, <<PlanAC>>, <<PlanZZ>>, <<PlanCM>>, <<PlanAC, PlanZZ>>}

Mapping(referenceId, entries) ==
    [ReferenceId |-> referenceId,
     Entries |-> [e \in 1 .. Len(entries) |-> [ReferenceId |-> entries[e]]]]

Control(id, mappings) == [Id |-> id, GuidelineMappings |-> mappings]

ControlFamily(title, controls) == [Title |-> title, Controls |-> controls]

\* Control AC in two families, control CM without mappings.
CatalogA ==
    [ControlFamilies |-> <<
        ControlFamily("Access Control",
            <<Control("AC", <<Mapping("NIST-800-53", <<"AC-1", "AC-2">>)>>)>>),
        ControlFamily("Configuration",
            <<Control("CM", <<>>),
              Control("AC", <<Mapping("ISO-27001", <<"A.9">>),
                              Mapping("NIST-800-53", <<>>)>>)>>)>>]

\* Control CM only, with a repeated entry and a repeated standard.
CatalogB ==
    [ControlFamilies |-> <<
        ControlFamily("Operations",
            <<Control("CM", <<Mapping("SOC2", <<"CC6.1", "CC6.1">>),
                              Mapping("SOC2", <<"CC7.2">>)>>)>>)>>]

CatalogOf(catalogId) == IF catalogId = "cat-A" THEN CatalogA ELSE CatalogB

\* mapper.Scope values: any subset of the catalog ids, each with its catalog.
Scopes == {[c \in D |-> CatalogOf(c)] : D \in SUBSET CatalogIds}

\* mapper.Set values: any subset of the mapper ids, each a fresh mapper.
Registries == {[id \in D |-> NewBasicMapper] : D \in SUBSET MapperIds}

\* The evidence handed to CalculateStatus: every evaluation outcome.
StatusEvidence == {Evidence(1, EngineAt(1), s) : s \in EvaluationStatuses}

\* The evidence of the enrich requests: every rule id, under an engine
\* name that may be registered and one that is not.
CompassEvidence ==
    {Evidence(r, e, s) : r \in RuleIds, e \in {EngineAt(1), EngineAt(2)},
                         s \in RetrieveStatuses}

\* The policy references of a batch: short lists of any rule ids, and lists
\* of maxBatchSize and more items.
CompassPolicies ==
    {[k \in 1 .. Len(l) |-> Policy(l[k], EngineAt(k))] :
        l \in SeqsUpTo(RuleIds, MaxListLen)}
    \cup {[k \in 1 .. n |-> Policy(((k - 1) % (NumRuleIds + 1)) + 1, EngineAt(1))] :
            n \in {maxBatchSize, maxBatchSize + 1}}

InitCompass ==
    /\ cache = EmptyCache
    /\ remoteVer = [r \in RuleIds |-> 0]
    /\ epoch = [r \in RuleIds |-> 0]
    /\ doneOK = {}
    /\ calls = 0
    /\ pc = [p \in Procs |-> "idle"]
    /\ cur = [p \in Procs |-> NoCall]
    /\ set \in Registries
    /\ scope \in Scopes
    /\ registrations = 0
    /\ reply = NoReply
    /\ NewStore

NextCompass ==
    \/ \E id \in MapperIds, catalogId \in CatalogIds, added \in PlanLists :
          AddEvaluationPlan(id, catalogId, added)
    \/ \E id \in MapperIds, policyRuleId \in RuleIds : GetMetadataCall(id, policyRuleId)
    \/ \E id \in MapperIds, evidence \in StatusEvidence :
          CalculateStatusCall(id, evidence)
    \/ \E body \in CompassEvidence \cup {Malformed} : PostV1Enrich(body)
    \/ \E malformed \in BOOLEAN, policies \in CompassPolicies :
          PostV1MetadataBatch(malformed, policies)

SpecCompass == InitCompass /\ [][NextCompass]_vars

\* The client with the service as its remote: plans are registered on the
\* "basic" mapper while Retrieve and Prefetch calls are under way.

\* mapper.Set values of the service: with and without a "basic" mapper.
ServiceRegistries == {[id \in D |-> NewBasicMapper] : D \in {{}, {BasicID}}}

\* mapper.Scope values of the service: cat-A alone or with cat-B.
ServiceScopes == {sc \in Scopes : "cat-A" \in DOMAIN sc}

\* The evidence handed to Retrieve and the lists handed to Prefetch.
ServiceEvidence == {Evidence(r, EngineAt(r), NotRun) : r \in RuleIds}

ServiceLists ==
    {[k \in 1 .. Len(s) |-> Evidence(s[k], EngineAt(k), Passed)] :
        s \in {t \in SeqsUpTo(RuleIds, MaxListLen) : Len(t) = MaxListLen}}

InitService ==
    /\ cache = EmptyCache
    /\ remoteVer = [r \in RuleIds |-> 0]
    /\ epoch = [r \in RuleIds |-> 0]
    /\ doneOK = {}
    /\ calls = 0
    /\ pc = [p \in Procs |-> "idle"]
    /\ cur = [p \in Procs |-> NoCall]
    /\ set \in ServiceRegistries
    /\ scope \in ServiceScopes
    /\ registrations = 0
    /\ reply = NoReply
    /\ NewStore

NextService ==
    \/ \E catalogId \in CatalogIds, added \in PlanLists :
          AddEvaluationPlan(BasicID, catalogId, added)
    \/ \E p \in Procs, evidence \in ServiceEvidence : StartRetrieve(p, evidence)
    \/ \E p \in Procs : RetrieveGet(p)
    \/ \E p \in Procs : RetrieveFetchService(p)
    \/ \E p \in Procs : RetrieveSet(p)
    \/ \E p \in Procs, l \in ServiceLists : StartPrefetch(p, l)
    \/ \E p \in Procs : PrefetchCallService(p)
    \/ \E p \in Procs : PrefetchStore(p)

SpecService == InitService /\ [][NextService]_vars

\* The "basic" mapper with callers that register plans and callers that
\* resolve, from a mapper that is new or has a plan registered.
RacePlans == {NewBasicMapper, AddedPlans(NewBasicMapper, "cat-A", <<PlanZZ>>)}

InitRace ==
    /\ cache = EmptyCache
    /\ remoteVer = [r \in RuleIds |-> 0]
    /\ epoch = [r \in RuleIds |-> 0]
    /\ doneOK = {}
    /\ calls = 0
    /\ pc = [p \in Procs |-> "idle"]
    /\ cur = [p \in Procs |-> NoCall]
    /\ set \in {[id \in {BasicID} |-> plans] : plans \in RacePlans}
    /\ scope \in ServiceScopes
    /\ registrations = 0
    /\ reply = NoReply
    /\ NewStore

NextRace ==
    \/ \E p \in Procs, catalogId \in CatalogIds, added \in PlanLists :
          StartAddEvaluationPlan(p, catalogId, added)
    \/ \E p \in Procs : AddEvaluationPlanRead(p)
    \/ \E p \in Procs : AddEvaluationPlanWrite(p)
    \/ \E p \in Procs, policyRuleId \in RuleIds : StartGetMetadata(p, policyRuleId)
    \/ \E p \in Procs : GetMetadataNext(p)

SpecRace == InitRace /\ [][NextRace]_vars

\* The processor on batches of log records that can and cannot be enriched,
\* against a remote that answers or fails.
LogRecordPool ==
    {LogRecord([POLICY_RULE_ID |-> 1, POLICY_ENGINE_NAME |-> "engine-a",
                POLICY_EVALUATION_RESULT |-> Passed]),
     LogRecord([POLICY_RULE_ID |-> 2, POLICY_ENGINE_NAME |-> "engine-b",
                POLICY_EVALUATION_RESULT |-> Failed, k8s_pod |-> "pod-1"]),
     LogRecord([POLICY_ENGINE_NAME |-> "engine-a",
                POLICY_EVALUATION_RESULT |-> Passed, k8s_pod |-> "pod-2"]),
     LogRecord([POLICY_RULE_ID |-> 1, POLICY_EVALUATION_RESULT |-> Passed]),
     LogRecord([POLICY_RULE_ID |-> 2, POLICY_ENGINE_NAME |-> "engine-b"])}

\* plog.Logs: ResourceLogs of ScopeLogs of LogRecords, MaxLogRecords
\* records in one scope or spread over resources and scopes.
LogBatches ==
    UNION {{<<<<records>>>>,
            <<<<SubSeq(records, 1, 1), <<>>>>, <<SubSeq(records, 2, Len(records))>>>>}
           : records \in [1 .. MaxLogRecords -> LogRecordPool]}

InitLogs ==
    /\ cache = EmptyCache
    /\ \E v \in {0, MaxVersion} : remoteVer = [r \in RuleIds |-> v]
    /\ epoch = [r \in RuleIds |-> 0]
    /\ doneOK = {}
    /\ calls = 0
    /\ pc = [p \in Procs |-> "idle"]
    /\ cur = [p \in Procs |-> NoCall]
    /\ NoCompass
    /\ NewStore

NextLogs ==
    \/ \E p \in Procs, ld \in LogBatches : StartProcessLogs(p, ld)
    \/ \E p \in Procs, pat \in SinglePatterns : ProcessLogRecord(p, pat)
    \/ \E p \in Procs : ProcessLogsReturn(p)

SpecLogs == InitLogs /\ [][NextLogs]_vars

\* The evidence store with its two kinds of callers: the logging path
\* calls Add, the gauge callback calls Events.
InitStore ==
    /\ cache = EmptyCache
    /\ remoteVer = [r \in RuleIds |-> 0]
    /\ epoch = [r \in RuleIds |-> 0]
    /\ doneOK = {}
    /\ calls = 0
    /\ pc = [p \in Procs |-> "idle"]
    /\ cur = [p \in Procs |-> NoCall]
    /\ NoCompass
    /\ NewStore

NextStore ==
    \/ \E p \in Procs, event \in StoreEvents : StartAdd(p, event)
    \/ \E p \in Procs : AddLock(p)
    \/ \E p \in Procs : AddWrite(p)
    \/ \E p \in Procs : AddUnlock(p)
    \/ \E p \in Procs : StartEvents(p)
    \/ \E p \in Procs : EventsLen(p)
    \/ \E p \in Procs : EventsNext(p)

SpecStore == InitStore /\ [][NextStore]_vars

DoneRetrieve(p) == pc[p] = "idle" /\ cur[p].op = "Retrieve"

DonePrefetch(p) == pc[p] = "idle" /\ cur[p].op = "Prefetch"

RuleOf(p) == cur[p].ev.PolicyRuleId

\* C1: a Retrieve that starts after a Retrieve for the same rule id has
\* returned a result sends no remote request and is served from the cache;
\* a Retrieve that is not served from the cache sends exactly one request,
\* for its own rule id.  So of two sequential calls, the first successful,
\* only the first can reach the remote, and at most once.
C1_CacheHitSuppressesFetch ==
    \A p \in Procs : cur[p].op = "Retrieve" =>
        /\ Len(cur[p].sent) <= 1
        /\ cur[p].after =>
              /\ cur[p].sent = <<>>
              /\ pc[p] \in {"r_get", "idle"}
              /\ pc[p] = "idle" => cur[p].hit /\ cur[p].ok
        /\ pc[p] = "idle" /\ cur[p].hit => cur[p].sent = <<>>
        /\ pc[p] = "idle" /\ ~cur[p].hit =>
              Len(cur[p].sent) = 1 /\ cur[p].sent[1].ids = <<RuleOf(p)>>

\* Two sequential Retrieve calls for one rule id: the first fetched, the
\* second came from the cache; no other call was made.
C1_Witness ==
    \E p, q \in Procs :
        /\ p # q /\ calls = 2
        /\ DoneRetrieve(p) /\ DoneRetrieve(q) /\ RuleOf(p) = RuleOf(q)
        /\ cur[p].ok /\ ~cur[p].hit /\ ~cur[p].after /\ Len(cur[p].sent) = 1
        /\ cur[q].ok /\ cur[q].hit /\ cur[q].after /\ Len(cur[q].sent) = 0

MetadataPart(out) ==
    [Control |-> out.Control, Frameworks |-> out.Frameworks,
     EnrichmentStatus |-> out.EnrichmentStatus]

\* C2: the verdict of a Retrieve result follows from the evidence of that
\* call alone (Passed gives Compliant, Failed gives NonCompliant), and two
\* results for one rule id taken from the same cache entry carry identical
\* control, frameworks and enrichmentStatus whatever their evidence.
C2_MetadataIndependentOfVerdict ==
    \A p \in Procs : DoneRetrieve(p) /\ cur[p].ok =>
        /\ cur[p].ev.PolicyEvaluationStatus = Passed => cur[p].out.Status = COMPLIANT
        /\ cur[p].ev.PolicyEvaluationStatus = Failed => cur[p].out.Status = NONCOMPLIANT
        /\ \A q \in Procs :
              /\ DoneRetrieve(q) /\ cur[q].ok
              /\ RuleOf(q) = RuleOf(p) /\ cur[q].epoch = cur[p].epoch
              => MetadataPart(cur[q].out) = MetadataPart(cur[p].out)

\* Passed evidence answered by a fetch, then Failed evidence for the same
\* rule id answered from the cache: same metadata, different verdicts.
C2_Witness ==
    \E p, q \in Procs :
        /\ DoneRetrieve(p) /\ DoneRetrieve(q) /\ cur[p].ok /\ cur[q].ok
        /\ RuleOf(p) = RuleOf(q) /\ cur[p].epoch = cur[q].epoch
        /\ ~cur[p].hit /\ cur[q].hit
        /\ cur[p].ev.PolicyEvaluationStatus = Passed
        /\ cur[q].ev.PolicyEvaluationStatus = Failed
        /\ cur[p].out.Status = COMPLIANT /\ cur[q].out.Status = NONCOMPLIANT
        /\ MetadataPart(cur[p].out) = MetadataPart(cur[q].out)

\* C3: the verdict in every Retrieve result equals the Status Calculator's
\* verdict (mapDecision) for the evaluation outcome of the evidence.
C3_VerdictIsStatusCalculator ==
    \A p \in Procs : DoneRetrieve(p) /\ cur[p].ok =>
        cur[p].out.Status = mapDecision(cur[p].ev.PolicyEvaluationStatus)

\* C4: a Retrieve whose lookup misses sends one request; when the remote's
\* answer is a failure, an empty list, a per-item error or a result without
\* metadata, Retrieve returns an error and the cache is as before, so the
\* rule id stays uncached; only a result with metadata and no error is
\* carried on to the cache write.
C4_FetchFailureWritesNothing ==
    [][\A p \in Procs :
          /\ (pc[p] = "r_get" /\ pc'[p] # "r_get" /\ ~CacheFound(cache, RuleOf(p)))
                => pc'[p] = "r_fetch" /\ cache' = cache
          /\ (pc[p] = "r_fetch" /\ pc'[p] # "r_fetch") =>
                /\ Len(cur'[p].sent) = 1
                /\ cur'[p].sent[1].ids = <<RuleOf(p)>>
                /\ cache' = cache
                /\ IF cur'[p].sent[1].answer = "ok"
                   THEN pc'[p] = "r_set" /\ cur'[p].metadata # NilMetadata
                   ELSE pc'[p] = "idle" /\ ~cur'[p].ok]_vars

\* A Retrieve failed on a per-item error and left its rule id uncached; the
\* next Retrieve for the rule id is fetching again.
C4_Witness ==
    \E p, q \in Procs :
        /\ p # q /\ DoneRetrieve(p) /\ ~cur[p].ok
        /\ cur[p].sent[1].answer = "error"
        /\ ~CacheFound(cache, RuleOf(p))
        /\ cur[q].op = "Retrieve" /\ pc[q] = "r_fetch" /\ RuleOf(q) = RuleOf(p)

InputIds(p) == {cur[p].input[k].PolicyRuleId : k \in 1 .. Len(cur[p].input)}

\* The step stores a result of a Prefetch that includes rule id k.
PrefetchWrites(k) ==
    \E p \in Procs : pc[p] = "p_store" /\ cur'[p] # cur[p] /\ k \in InputIds(p)

\* The step is the cache write of a Retrieve for rule id k.
RetrieveWrites(k) ==
    \E p \in Procs : pc[p] = "r_set" /\ pc'[p] = "idle" /\ RuleOf(p) = k

\* C5 as stated: an entry is never removed, its value changes only in a
\* Prefetch that includes its rule id, and Retrieve writes only under a
\* rule id that has no entry.
C5_OnlyPrefetchOverwrites ==
    [][/\ \A k \in DOMAIN cache :
             /\ k \in DOMAIN cache'
             /\ cache'[k] # cache[k] => PrefetchWrites(k)
       /\ \A k \in DOMAIN cache : ~RetrieveWrites(k)]_vars

\* C5 amended: an entry is never removed; its value changes only in a
\* Prefetch that includes its rule id or in the cache write of a Retrieve
\* for that rule id whose own lookup had missed; the step of a Retrieve
\* whose lookup finds the entry leaves the cache as it is.
C5_EntriesPersist ==
    [][/\ \A k \in DOMAIN cache :
             /\ k \in DOMAIN cache'
             /\ cache'[k] # cache[k] => PrefetchWrites(k) \/ RetrieveWrites(k)
       /\ \A p \in Procs :
             pc[p] = "r_get" /\ pc'[p] # "r_get" /\ CacheFound(cache, RuleOf(p))
                => cache' = cache /\ pc'[p] = "idle" /\ cur'[p].hit]_vars

\* An entry written by a Retrieve was replaced by a later Prefetch with a
\* newer value, and another entry exists beside it.
C5_Witness ==
    \E p, q \in Procs :
        /\ DoneRetrieve(p) /\ cur[p].ok /\ ~cur[p].hit
        /\ DonePrefetch(q) /\ RuleOf(p) \in InputIds(q)
        /\ cache[RuleOf(p)] # cur[p].metadata
        /\ epoch[RuleOf(p)] = 2
        /\ Cardinality(DOMAIN cache) = 2

\* C6: two Retrieve calls for one rule id that both missed have each sent
\* one request; each whose request was answered with metadata returned a
\* result; once both are done the cache holds under the rule id the
\* metadata one of them fetched, which is the metadata both fetched when
\* the remote returned the same to both.
C6_DuplicateFetchLastWriterWins ==
    \A p, q \in Procs :
        (/\ p # q /\ DoneRetrieve(p) /\ DoneRetrieve(q)
         /\ RuleOf(p) = RuleOf(q) /\ ~cur[p].hit /\ ~cur[q].hit) =>
        /\ Len(cur[p].sent) = 1 /\ Len(cur[q].sent) = 1
        /\ cur[p].ok <=> cur[p].sent[1].answer = "ok"
        /\ cur[p].ok /\ cur[q].ok =>
              /\ CacheFound(cache, RuleOf(p))
              /\ cache[RuleOf(p)] \in {cur[p].metadata, cur[q].metadata}
              /\ cur[p].metadata = cur[q].metadata =>
                    cache[RuleOf(p)] = cur[p].metadata

\* Both callers missed, both fetched, both returned a result, and the
\* remote changed between the two fetches: the cache holds the value of
\* one of them.
C6_Witness ==
    \E p, q \in Procs :
        /\ p # q /\ DoneRetrieve(p) /\ DoneRetrieve(q)
        /\ RuleOf(p) = RuleOf(q) /\ ~cur[p].hit /\ ~cur[q].hit
        /\ cur[p].ok /\ cur[q].ok
        /\ cur[p].metadata # cur[q].metadata
        /\ cache[RuleOf(p)] = cur[q].metadata
        /\ epoch[RuleOf(p)] = 2

Range(f) == {f[k] : k \in DOMAIN f}

RECURSIVE Concat(_)
Concat(sent) == IF sent = <<>> THEN <<>> ELSE Head(sent).ids \o Concat(Tail(sent))

\* All rule ids a call has sent so far, in sending order.
SentIds(p) == Concat(cur[p].sent)

\* ceil(u / batchSize)
BatchesFor(u) == (u + batchSize - 1) \div batchSize

\* The first position of rule id r in an evidence list.
FirstIndex(list, r) ==
    LET at == {k \in 1 .. Len(list) : list[k].PolicyRuleId = r}
    IN CHOOSE k \in at : \A x \in at : k <= x

\* C7: over the requests of a Prefetch call that has returned, no rule id
\* was sent twice and the rule ids sent are the distinct rule ids of the
\* input, whatever the number of input items that share a rule id and
\* their engine names.
C7_PrefetchDeduplicates ==
    \A p \in Procs : DonePrefetch(p) =>
        LET flat == SentIds(p) IN
        /\ Cardinality(Range(flat)) = Len(flat)
        /\ Range(flat) = InputIds(p)

\* A returned Prefetch whose input held every rule id twice, under two
\* engine names, and that needed three batches.
C7_Witness ==
    \E p \in Procs :
        /\ DonePrefetch(p) /\ Len(cur[p].sent) = 3
        /\ Len(cur[p].input) = 2 * Len(SentIds(p))
        /\ cur[p].input[1].PolicyRuleId = cur[p].input[2].PolicyRuleId
        /\ cur[p].input[1].PolicyEngineName # cur[p].input[2].PolicyEngineName

\* C8: a returned Prefetch over u distinct rule ids has sent exactly
\* ceil(u / 50) requests; none is empty, all but the last hold 50 ids, the
\* last at most 50; together they hold the u ids once each, in the order
\* of their first occurrence in the input.  A running Prefetch has sent
\* no empty request and none of more than 50 ids, and is i = 50 * (number
\* of batches done) rule ids into its list, short of the end.
C8_BatchesOfFifty ==
    \A p \in Procs : cur[p].op = "Prefetch" =>
        LET sent == cur[p].sent IN
        /\ \A b \in 1 .. Len(sent) :
              Len(sent[b].ids) >= 1 /\ Len(sent[b].ids) <= batchSize
        /\ pc[p] = "p_call" =>
              cur[p].i = batchSize * Len(sent) /\ cur[p].i < Len(cur[p].ids)
        /\ pc[p] = "idle" =>
              LET u == Cardinality(InputIds(p))
                  flat == SentIds(p)
              IN
              /\ Len(sent) = BatchesFor(u) /\ Len(flat) = u
              /\ \A b \in 1 .. Len(sent) - 1 : Len(sent[b].ids) = batchSize
              /\ \A a \in 1 .. Len(flat) - 1 :
                    FirstIndex(cur[p].input, flat[a])
                       < FirstIndex(cur[p].input, flat[a + 1])

\* A returned Prefetch over more than 100 distinct ids given in descending
\* order: three requests, the last one smaller than 50.
C8_Witness ==
    \E p \in Procs :
        /\ DonePrefetch(p) /\ Len(cur[p].sent) = 3
        /\ Len(cur[p].sent[1].ids) = batchSize
        /\ Len(cur[p].sent[3].ids) < batchSize
        /\ cur[p].input[1].PolicyRuleId > cur[p].input[2].PolicyRuleId
        /\ SentIds(p)[1] = cur[p].input[1].PolicyRuleId

\* Rule id r has the same entry, or no entry, in caches c and d.
SameEntry(c, d, r) ==
    /\ CacheFound(c, r) <=> CacheFound(d, r)
    /\ CacheFound(c, r) => c[r] = d[r]

\* C9: a Prefetch that has returned returned success and has sent every
\* batch, whichever of them failed; the rule ids of a failed batch have the
\* entries (or no entry) they had when the call began; the error-free
\* results of a batch that succeeded are in the cache.
C9_PrefetchNeverAborts ==
    \A p \in Procs : DonePrefetch(p) =>
        /\ cur[p].ok
        /\ Len(cur[p].sent) = BatchesFor(Cardinality(InputIds(p)))
        /\ \A b \in 1 .. Len(cur[p].sent) :
              LET batch == cur[p].sent[b] IN
              /\ batch.failed =>
                    \A r \in Range(batch.ids) : SameEntry(cache, cur[p].cache0, r)
              /\ ~batch.failed =>
                    \A r \in batch.good :
                        CacheFound(cache, r) /\ cache[r] = MetadataOf(r, remoteVer[r])

\* Three batches, the first failed and the third did not: a rule id of the
\* first kept the stale entry it had, the results of the third are cached.
C9_Witness ==
    \E p \in Procs :
        /\ DonePrefetch(p) /\ Len(cur[p].sent) = 3
        /\ cur[p].sent[1].failed /\ ~cur[p].sent[3].failed
        /\ cur[p].sent[3].good # {}
        /\ \E r \in Range(cur[p].sent[1].ids) :
              /\ CacheFound(cur[p].cache0, r)
              /\ cache[r] = MetadataOf(r, 0)
              /\ cache[r] # MetadataOf(r, remoteVer[r])

\* C10: a round of prefetchBatch's loop puts a result that has metadata
\* and no error into the cache under the result's rule id and changes no
\* other entry; for any other result it leaves the whole cache as it is.
\* A Retrieve whose lookup finds an entry returns the metadata of that
\* entry and sends no request.
C10_PrefetchedResultsAreCached ==
    [][\A p \in Procs :
          /\ (pc[p] = "p_store" /\ cur'[p] # cur[p]) =>
                LET result == cur[p].resp[cur[p].j + 1]
                    k == result.PolicyRuleId
                IN
                IF ~result.Error /\ result.Metadata # NilMetadata
                THEN /\ CacheFound(cache', k) /\ cache'[k] = result.Metadata
                     /\ \A x \in DOMAIN cache' \ {k} : SameEntry(cache', cache, x)
                     /\ DOMAIN cache \subseteq DOMAIN cache'
                ELSE cache' = cache
          /\ (pc[p] = "r_get" /\ pc'[p] # "r_get" /\ CacheFound(cache, RuleOf(p))) =>
                /\ pc'[p] = "idle" /\ cur'[p].ok /\ cur'[p].sent = <<>>
                /\ MetadataPart(cur'[p].out) =
                      [Control |-> cache[RuleOf(p)].Control,
                       Frameworks |-> cache[RuleOf(p)].Frameworks,
                       EnrichmentStatus |-> cache[RuleOf(p)].EnrichmentStatus]]_vars

\* A returned Prefetch had an error-free result for a rule id and a result
\* with a per-item error for another; the Retrieve that followed for the
\* first was served from the cache without a request, the second rule id
\* has no entry.
C10_Witness ==
    \E p, q \in Procs :
        /\ p # q /\ calls = 2
        /\ DonePrefetch(q) /\ Len(cur[q].sent) = 1 /\ ~cur[q].sent[1].failed
        /\ DoneRetrieve(p) /\ RuleOf(p) \in cur[q].sent[1].good
        /\ ~cur[p].after /\ cur[p].hit /\ cur[p].ok /\ cur[p].sent = <<>>
        /\ cur[p].out.Control = cache[RuleOf(p)].Control
        /\ \E r \in Range(cur[q].sent[1].ids) :
              r \notin cur[q].sent[1].good /\ ~CacheFound(cache, r)

\* --------------------------------------------------- compass properties

\* The positions <<plan, requirement, procedure>> of the procedures with
\* id policyRuleId in the plans registered under one catalog id.
ProcedurePositions(catalogPlans, policyRuleId) ==
    UNION {UNION {{<<p, a, k>> : k \in
                      {n \in 1 .. Len(catalogPlans[p].Assessments[a].Procedures) :
                          catalogPlans[p].Assessments[a].Procedures[n].Id = policyRuleId}} :
                  a \in 1 .. Len(catalogPlans[p].Assessments)} :
           p \in 1 .. Len(catalogPlans)}

\* Position x comes before position y in plan, requirement, procedure order.
Before(x, y) ==
    \/ x[1] < y[1]
    \/ x[1] = y[1] /\ x[2] < y[2]
    \/ x[1] = y[1] /\ x[2] = y[2] /\ x[3] < y[3]

\* The last of a non-empty set of positions.
LastPosition(positions) ==
    CHOOSE x \in positions : \A y \in positions : y = x \/ Before(y, x)

\* The titles of the families of catalog that list control controlId, in
\* family order.
FamiliesWith(catalog, controlId) ==
    {f \in 1 .. Len(catalog.ControlFamilies) :
        \E k \in 1 .. Len(catalog.ControlFamilies[f].Controls) :
            catalog.ControlFamilies[f].Controls[k].Id = controlId}

\* The largest element of a non-empty set of numbers.
Last(S) == CHOOSE x \in S : \A y \in S : y <= x

\* Some procedure with id policyRuleId, registered under catalogId, belongs
\* to a plan whose control is a control of the catalog in scope.
SomeProcedureMatches(plans, catalogId, policyRuleId) ==
    /\ catalogId \in DOMAIN plans \cap DOMAIN scope
    /\ \E x \in ProcedurePositions(plans[catalogId], policyRuleId) :
          FamiliesWith(scope[catalogId], plans[catalogId][x[1]].Control.EntryId) # {}

\* The last procedure with id policyRuleId registered under catalogId
\* belongs to a plan whose control is a control of the catalog in scope.
LastProcedureMatches(plans, catalogId, policyRuleId) ==
    /\ catalogId \in DOMAIN plans \cap DOMAIN scope
    /\ ProcedurePositions(plans[catalogId], policyRuleId) # {}
    /\ LET x == LastPosition(ProcedurePositions(plans[catalogId], policyRuleId))
       IN FamiliesWith(scope[catalogId], plans[catalogId][x[1]].Control.EntryId) # {}

\* The api.ComplianceControl that the procedure at position x of the plans
\* registered under catalogId stands for.
ControlAt(plans, catalogId, x) ==
    LET plan == plans[catalogId][x[1]]
        families == FamiliesWith(scope[catalogId], plan.Control.EntryId)
    IN [Id |-> plan.Assessments[x[2]].Requirement.EntryId,
        Category |-> scope[catalogId].ControlFamilies[Last(families)].Title,
        RemediationDescription |-> plan.Assessments[x[2]].Procedures[x[3]].Documentation,
        CatalogId |-> catalogId]

\* The last operation was a GetMetadata call.
GotMetadata == reply.op = "GetMetadata"

\* C12 as stated: Success exactly when some procedure with the rule id, in
\* a catalog with plans and in scope, has its plan's control in that
\* catalog; the control of the metadata is then taken from such a procedure.
C12_SuccessIffSomeProcedureMatches ==
    GotMetadata =>
        LET plans == set[reply.id]
            matching == {c \in CatalogIds :
                            SomeProcedureMatches(plans, c, reply.policyRuleId)}
        IN /\ reply.enrichmentStatus = Success <=> matching # {}
           /\ reply.enrichmentStatus = Success =>
                 \E c \in matching :
                    \E x \in ProcedurePositions(plans[c], reply.policyRuleId) :
                        /\ FamiliesWith(scope[c], plans[c][x[1]].Control.EntryId) # {}
                        /\ reply.metadata.Control.Id =
                              plans[c][x[1]].Assessments[x[2]].Requirement.EntryId
                        /\ reply.metadata.Control.CatalogId = c

\* C12, amended: Success exactly when, for some catalog with plans and in
\* scope, the last procedure with the rule id has its plan's control in
\* that catalog; the control of the metadata is then that of the first such
\* catalog visited: requirement id and documentation of that last
\* procedure, title of the last family listing the control, the catalog's
\* id.  A catalog absent from scope never contributes; with an empty scope
\* every rule id is Unmapped.
C12_SuccessIffLastProcedureMatches ==
    GotMetadata =>
        LET plans == set[reply.id]
            matching == {c \in CatalogIds :
                            LastProcedureMatches(plans, c, reply.policyRuleId)}
        IN /\ reply.enrichmentStatus \in {Success, Unmapped}
           /\ reply.enrichmentStatus = Success <=> matching # {}
           /\ reply.enrichmentStatus = Success =>
                 LET first == Last({k \in DOMAIN reply.order :
                                       /\ reply.order[k] \in matching
                                       /\ \A n \in 1 .. k - 1 :
                                             reply.order[n] \notin matching})
                     c == reply.order[first]
                 IN /\ c \in DOMAIN scope
                    /\ reply.metadata.Control =
                          ControlAt(plans, c,
                              LastPosition(ProcedurePositions(plans[c], reply.policyRuleId)))
           /\ scope = <<>> => reply.enrichmentStatus = Unmapped

\* A Success whose catalog kept the second of two procedures with the rule
\* id and the later family of its control, while another catalog holding
\* the rule id is registered but absent from scope.
C12_Witness ==
    /\ GotMetadata /\ reply.enrichmentStatus = Success
    /\ reply.metadata.Control.Id = 104
    /\ reply.metadata.Control.RemediationDescription = "doc-5"
    /\ \E c \in DOMAIN set[reply.id] \ DOMAIN scope :
          ProcedurePositions(set[reply.id][c], reply.policyRuleId) # {}

\* C11: the step in which a caller starts Prefetch with an empty list is
\* the whole call: the caller is back with success, no request was sent
\* and the cache is the one before the step.
C11_EmptyPrefetchIsNoOp ==
    [][\A p \in Procs :
          (pc[p] = "idle" /\ calls' # calls /\ cur'[p].op = "Prefetch"
             /\ cur'[p].input = <<>>) =>
                /\ pc'[p] = "idle"
                /\ cur'[p].ok
                /\ cur'[p].sent = <<>>
                /\ cache' = cache]_vars

\* A Prefetch of the empty list returned success with nothing sent, on a
\* cache that held an entry and still holds it.
C11_Witness ==
    \E p \in Procs :
        /\ DonePrefetch(p) /\ cur[p].input = <<>>
        /\ cur[p].ok /\ cur[p].sent = <<>>
        /\ cur[p].cache0 # EmptyCache /\ cache = cur[p].cache0

\* The catalogs that yield a match for policyRuleId: registered, in scope,
\* and the procedure kept for the rule id leads to a control of the catalog.
Matching(plans, policyRuleId) ==
    {c \in CatalogIds : LastProcedureMatches(plans, c, policyRuleId)}

\* C13: when no catalog yields a match for the rule id, GetMetadata returns
\* Unmapped with control id = rule id, category "Unknown", catalog id
\* "unknown", no remediation, empty requirements and empty frameworks; the
\* handlers answer such a miss with 200 and an item without error.
C13_MissGivesFallback ==
    /\ (GotMetadata /\ Matching(set[reply.id], reply.policyRuleId) = {}) =>
          /\ reply.enrichmentStatus = Unmapped
          /\ reply.metadata =
                [Control |-> [Id |-> reply.policyRuleId,
                              Category |-> "Unknown",
                              RemediationDescription |-> "nil",
                              CatalogId |-> "unknown"],
                 Frameworks |-> [Requirements |-> <<>>, Frameworks |-> <<>>]]
    /\ (reply.op = "PostV1Enrich" /\ reply.body # Malformed) =>
          LET plans == IF reply.via = "" THEN NewBasicMapper ELSE set[reply.via]
          IN Matching(plans, reply.body.PolicyRuleId) = {} =>
                /\ reply.code = 200
                /\ reply.Compliance.EnrichmentStatus = Unmapped
                /\ reply.Compliance.Control.Id = reply.body.PolicyRuleId
                /\ reply.Compliance.Control.Category = "Unknown"
                /\ reply.Compliance.Control.CatalogId = "unknown"
                /\ reply.Compliance.Frameworks =
                      [Requirements |-> <<>>, Frameworks |-> <<>>]
    /\ (reply.op = "PostV1MetadataBatch" /\ reply.code = 200) =>
          LET plans == IF reply.via = "" THEN NewBasicMapper ELSE set[reply.via]
          IN \A i \in DOMAIN reply.Results :
                Matching(plans, reply.Results[i].PolicyRuleId) = {} =>
                   /\ ~reply.Results[i].Error
                   /\ reply.Results[i].Metadata.Control.Id = reply.Results[i].PolicyRuleId
                   /\ reply.Results[i].Metadata.Control.CatalogId = "unknown"

\* A GetMetadata that missed twice: one registered catalog holds the rule
\* id but is absent from scope, and the one in scope has a procedure for
\* the rule id whose control it does not list.
C13_Witness ==
    /\ GotMetadata /\ reply.enrichmentStatus = Unmapped
    /\ reply.metadata.Control.Id = reply.policyRuleId
    /\ \E c \in DOMAIN set[reply.id] \ DOMAIN scope :
          ProcedurePositions(set[reply.id][c], reply.policyRuleId) # {}
    /\ \E c \in DOMAIN set[reply.id] \cap DOMAIN scope :
          /\ ProcedurePositions(set[reply.id][c], reply.policyRuleId) # {}
          /\ ~LastProcedureMatches(set[reply.id], c, reply.policyRuleId)

\* A GetMetadata call is followed by the same call, plans and scope unchanged.
RepeatedGetMetadata ==
    /\ reply.op = "GetMetadata" /\ reply'.op = "GetMetadata"
    /\ reply'.repeats > 0

\* C14 as stated: two successive GetMetadata calls with unchanged scope
\* and plans return identical metadata and the same enrichment status,
\* whatever order the registered catalogs are visited in.
C14_RepeatedCallIsIdentical ==
    [][RepeatedGetMetadata =>
          /\ reply'.enrichmentStatus = reply.enrichmentStatus
          /\ reply'.metadata = reply.metadata]_vars

\* C14, amended: two successive GetMetadata calls with unchanged scope and
\* plans return the same enrichment status; they return identical metadata
\* when at most one catalog yields a match, and otherwise each returns the
\* metadata of one of the matching catalogs, the first its own visit meets.
C14_RepeatedCallSameStatus ==
    [][RepeatedGetMetadata =>
          LET plans == set[reply.id]
              matching == Matching(plans, reply.policyRuleId)
          IN /\ reply'.enrichmentStatus = reply.enrichmentStatus
             /\ Cardinality(matching) <= 1 => reply'.metadata = reply.metadata
             /\ Cardinality(matching) > 1 =>
                   \A got \in {reply.metadata, reply'.metadata} :
                      \E c \in matching :
                         got.Control =
                            ControlAt(plans, c,
                               LastPosition(ProcedurePositions(plans[c],
                                                               reply.policyRuleId)))]_vars

\* A repeated call that visited two registered catalogs, both in scope, of
\* which exactly one yields a match, and returned Success.
C14_Witness ==
    /\ GotMetadata /\ reply.repeats > 0
    /\ reply.enrichmentStatus = Success
    /\ Len(reply.order) = 2
    /\ DOMAIN set[reply.id] \subseteq DOMAIN scope
    /\ Cardinality(Matching(set[reply.id], reply.policyRuleId)) = 1

\* The verdict table of the Status Calculator, by evaluation outcome.
Verdict(status) ==
    IF status = Passed THEN COMPLIANT
    ELSE IF status = Failed THEN NONCOMPLIANT
    ELSE IF status \in {NotRun, NotApplicable} THEN NOTAPPLICABLE
    ELSE UNKNOWN

\* C15: the Status Calculator gives a verdict for every evaluation outcome
\* and the verdict depends on the outcome only: Passed gives Compliant,
\* Failed NonCompliant, NotRun and NotApplicable NotApplicable, anything
\* else Unknown; an enrich request gets that verdict whether its rule is
\* mapped or Unmapped, and the applier's mapResult gives the same table.
C15_VerdictByOutcomeOnly ==
    /\ reply.op = "CalculateStatus" =>
          reply.status = Verdict(reply.evidence.PolicyEvaluationStatus)
    /\ (reply.op = "PostV1Enrich" /\ reply.code = 200) =>
          /\ reply.Compliance.EnrichmentStatus \in {Success, Unmapped}
          /\ reply.Compliance.Status = Verdict(reply.body.PolicyEvaluationStatus)
    /\ \A s \in EvaluationStatuses :
          /\ mapResult(s) = Verdict(s)
          /\ Verdict(s) \in {COMPLIANT, NONCOMPLIANT, NOTAPPLICABLE, UNKNOWN}

\* An enrich request for a rule that is Unmapped, evaluated NotRun, got the
\* verdict NotApplicable.
C15_Witness ==
    /\ reply.op = "PostV1Enrich" /\ reply.code = 200
    /\ reply.Compliance.EnrichmentStatus = Unmapped
    /\ reply.body.PolicyEvaluationStatus = NotRun
    /\ reply.Compliance.Status = NOTAPPLICABLE

\* The last request was a batch that the handler answered with 200.
BatchAnswered == reply.op = "PostV1MetadataBatch" /\ reply.code = 200

\* The plans of the mapper that served the last request.
PlansVia == IF reply.via = "" THEN NewBasicMapper ELSE set[reply.via]

\* C16: a well-formed batch of n > 0 policy rules, n above maxBatchSize
\* included, is answered with exactly n results in input order, the i-th
\* with index i (from 0) and the i-th rule id, metadata present (the
\* fallback when nothing maps) and no error, and with the summary
\* total = n, success = n, failed = 0.
C16_BatchAnswersEveryItem ==
    (reply.op = "PostV1MetadataBatch" /\ ~reply.malformed /\ Len(reply.policies) > 0) =>
        LET n == Len(reply.policies) IN
        /\ reply.code = 200
        /\ Len(reply.Results) = n
        /\ \A i \in 1 .. n :
              /\ reply.Results[i].Index = i - 1
              /\ reply.Results[i].PolicyRuleId = reply.policies[i].PolicyRuleId
              /\ reply.Results[i].Metadata # NilMetadata
              /\ reply.Results[i].Metadata.Control.CatalogId \in CatalogIds \cup {"unknown"}
              /\ Matching(PlansVia, reply.policies[i].PolicyRuleId) = {} =>
                    reply.Results[i].Metadata.Control.Id = reply.policies[i].PolicyRuleId
              /\ ~reply.Results[i].Error
        /\ reply.Summary = [Total |-> n, Success |-> n, Failed |-> 0]

\* A batch of maxBatchSize + 1 rules was answered in full, some of its
\* items mapped and some with the fallback.
C16_Witness ==
    /\ BatchAnswered
    /\ Len(reply.Results) = maxBatchSize + 1
    /\ reply.Summary.Total = maxBatchSize + 1
    /\ \E i \in DOMAIN reply.Results :
          reply.Results[i].Metadata.Control.CatalogId \in CatalogIds
    /\ \E i \in DOMAIN reply.Results :
          reply.Results[i].Metadata.Control.CatalogId = "unknown"

\* C17: a well-formed batch request with an empty list is answered 400
\* before any item is processed: no mapper is selected, no GetMetadata call
\* is made, and the answer carries neither results nor a summary.
C17_EmptyBatchRejected ==
    (reply.op = "PostV1MetadataBatch" /\ ~reply.malformed /\ reply.policies = <<>>) =>
        /\ reply.code = 400
        /\ reply.via = "none"
        /\ reply.lookups = 0
        /\ DOMAIN reply \cap {"Results", "Summary", "orders"} = {}

\* An empty batch was rejected by a service whose basic mapper has plans
\* registered.
C17_Witness ==
    /\ reply.op = "PostV1MetadataBatch" /\ ~reply.malformed
    /\ reply.policies = <<>> /\ reply.code = 400
    /\ BasicID \in DOMAIN set /\ DOMAIN set[BasicID] # {}

\* The plans of the baseline mapper of the batch handler.
BaselinePlans == IF BasicID \in DOMAIN set THEN set[BasicID] ELSE NewBasicMapper

\* C18 as stated: each item of a batch is resolved by the mapper registered
\* under the item's engine name, and by the baseline mapper only when the
\* set holds no mapper under that name.
C18_ResolverPerItemEngine ==
    BatchAnswered =>
        \A i \in DOMAIN reply.Results :
            LET engine == reply.policies[i].PolicyEngineName
                plans == IF engine \in DOMAIN set THEN set[engine] ELSE BaselinePlans
            IN \E order \in VisitOrders(plans) :
                  reply.Results[i].Metadata =
                     GetMetadata(plans, reply.policies[i].PolicyRuleId, scope, order).metadata

\* C19: the result at each index of a batch is what a single GetMetadata
\* call for that item's rule id on the same mapper and scope returns,
\* whatever the other items are: it is the metadata of that call under
\* some visit order, and under every visit order when at most one catalog
\* yields a match for the rule id.
C19_BatchItemsInIsolation ==
    BatchAnswered =>
        \A i \in DOMAIN reply.Results :
            LET policyRuleId == reply.policies[i].PolicyRuleId
                single(order) == GetMetadata(PlansVia, policyRuleId, scope, order).metadata
            IN /\ \E order \in VisitOrders(PlansVia) :
                     reply.Results[i].Metadata = single(order)
               /\ Cardinality(Matching(PlansVia, policyRuleId)) <= 1 =>
                     \A order \in VisitOrders(PlansVia) :
                        reply.Results[i].Metadata = single(order)

\* A batch of two items of which the first is unmapped and the second is
\* mapped, each answered as it would be alone.
C19_Witness ==
    /\ BatchAnswered /\ Len(reply.Results) = 2
    /\ Matching(PlansVia, reply.policies[1].PolicyRuleId) = {}
    /\ Matching(PlansVia, reply.policies[2].PolicyRuleId) # {}
    /\ reply.Results[1].Metadata.Control.CatalogId = "unknown"
    /\ reply.Results[2].Metadata.Control.CatalogId \in CatalogIds

\* C20: a well-formed enrich request is answered 200; its result comes from
\* the mapper registered under the evidence's engine name, and when the set
\* holds none under that name, from a new basic mapper, which has no plans
\* and so answers with the Unmapped fallback and the verdict of the outcome.
C20_EnrichSelectsByEngineName ==
    (reply.op = "PostV1Enrich" /\ reply.body # Malformed) =>
        LET engine == reply.body.PolicyEngineName IN
        /\ reply.code = 200
        /\ engine \in DOMAIN set =>
              /\ reply.via = engine
              /\ reply.order \in VisitOrders(set[engine])
              /\ reply.Compliance = enrich(reply.body, set[engine], reply.order)
        /\ engine \notin DOMAIN set =>
              /\ reply.via = ""
              /\ reply.Compliance =
                    [Control |-> [Id |-> reply.body.PolicyRuleId,
                                  Category |-> "Unknown",
                                  RemediationDescription |-> "nil",
                                  CatalogId |-> "unknown"],
                     Frameworks |-> [Requirements |-> <<>>, Frameworks |-> <<>>],
                     Risk |-> "nil",
                     Status |-> Verdict(reply.body.PolicyEvaluationStatus),
                     EnrichmentStatus |-> Unmapped]

\* An enrich request under an engine name without a mapper was answered 200
\* with the fallback, while the mapper registered as "basic" maps the rule.
C20_Witness ==
    /\ reply.op = "PostV1Enrich" /\ reply.body # Malformed
    /\ reply.body.PolicyEngineName \notin DOMAIN set
    /\ reply.code = 200
    /\ reply.Compliance.EnrichmentStatus = Unmapped
    /\ BasicID \in DOMAIN set
    /\ Matching(set[BasicID], reply.body.PolicyRuleId) # {}

\* Sequence s is a prefix of sequence t.
IsPrefix(s, t) == Len(s) <= Len(t) /\ SubSeq(t, 1, Len(s)) = s

\* The plans registered under catalogId, none if the id is new.
PlansUnder(plans, catalogId) ==
    IF catalogId \in DOMAIN plans THEN plans[catalogId] ELSE <<>>

\* C25: AddEvaluationPlan only appends.  A registration leaves under its
\* catalog id the plans that were there followed by the plans it was given,
\* and changes nothing under any other catalog id or in any other mapper;
\* no step of any operation removes a catalog id or removes or reorders the
\* plans under one, so the plans of a catalog id are the concatenation, in
\* call order, of the plans registered under it.
C25_RegistrationOnlyAppends ==
    [][/\ \A id \in DOMAIN set :
             /\ id \in DOMAIN set'
             /\ \A c \in DOMAIN set[id] :
                   c \in DOMAIN set'[id] /\ IsPrefix(set[id][c], set'[id][c])
       /\ registrations' # registrations =>
             \E id \in DOMAIN set, catalogId \in CatalogIds, added \in PlanLists :
                /\ DOMAIN set'[id] = DOMAIN set[id] \cup {catalogId}
                /\ set'[id][catalogId] = PlansUnder(set[id], catalogId) \o added
                /\ \A c \in DOMAIN set[id] \ {catalogId} : set'[id][c] = set[id][c]
                /\ \A other \in DOMAIN set \ {id} : set'[other] = set[other]
       /\ registrations' = registrations => set' = set]_vars

\* Two registrations under the same catalog id of one mapper left their
\* plans in call order, while the mapper's other catalog id is not
\* registered and the other mapper of the set is still empty.
C25_Witness ==
    /\ registrations = 2
    /\ \E id \in DOMAIN set :
          /\ DOMAIN set[id] = {"cat-A"}
          /\ set[id]["cat-A"] = <<PlanCM, PlanAC, PlanZZ>>
          /\ DOMAIN set # {id}
          /\ \A other \in DOMAIN set \ {id} : set[other] = NewBasicMapper

\* The standard mappings of the control that the procedure at position x
\* of the plans registered under catalogId leads to: those of the last
\* control with that id in the last family listing it.
MappingsAt(plans, catalogId, x) ==
    LET controlId == plans[catalogId][x[1]].Control.EntryId
        family == scope[catalogId].ControlFamilies[
                      Last(FamiliesWith(scope[catalogId], controlId))]
        k == Last({n \in 1 .. Len(family.Controls) : family.Controls[n].Id = controlId})
    IN family.Controls[k].GuidelineMappings

\* The number of entries of the mappings before the m-th.
EntriesBefore(mappings, m) ==
    Cardinality(UNION {{n} \X (1 .. Len(mappings[n].Entries)) : n \in 1 .. m - 1})

\* C26: on a Success, frameworks has one element per standard mapping of
\* the control, the mapping's standardRef, and requirements one element
\* per entry of every mapping, the entry's requirementRef, both in
\* encounter order and with duplicates kept.
C26_RefsInEncounterOrder ==
    (GotMetadata /\ reply.enrichmentStatus = Success) =>
        LET plans == set[reply.id]
            c == reply.metadata.Control.CatalogId
            mappings == MappingsAt(plans, c,
                            LastPosition(ProcedurePositions(plans[c], reply.policyRuleId)))
            requirements == reply.metadata.Frameworks.Requirements
            frameworks == reply.metadata.Frameworks.Frameworks
        IN /\ Len(frameworks) = Len(mappings)
           /\ \A m \in 1 .. Len(mappings) : frameworks[m] = mappings[m].ReferenceId
           /\ Len(requirements) = EntriesBefore(mappings, Len(mappings) + 1)
           /\ \A m \in 1 .. Len(mappings) :
                 \A e \in 1 .. Len(mappings[m].Entries) :
                    requirements[EntriesBefore(mappings, m) + e] =
                       mappings[m].Entries[e].ReferenceId

\* A Success for a control with two mappings to the same standard, one of
\* them with the same requirement twice: every repeat is in the result.
C26_Witness ==
    /\ GotMetadata /\ reply.enrichmentStatus = Success
    /\ reply.metadata.Frameworks.Frameworks = <<"SOC2", "SOC2">>
    /\ reply.metadata.Frameworks.Requirements = <<"CC6.1", "CC6.1", "CC7.2">>

\* C28: a handler that finds no mapper under the key it looks up (the
\* engine name for an enrich request, "basic" for a batch) resolves with a
\* new basic mapper without plans: every result is the Unmapped fallback,
\* whatever the rule id and the scope, and whatever plans the mappers held
\* in the set have.
C28_FallbackMapperHasNoPlans ==
    /\ (reply.op = "PostV1Enrich" /\ reply.body # Malformed
          /\ reply.body.PolicyEngineName \notin DOMAIN set) =>
             /\ reply.order = <<>>
             /\ reply.Compliance.EnrichmentStatus = Unmapped
             /\ reply.Compliance.Control.Id = reply.body.PolicyRuleId
             /\ reply.Compliance.Control.CatalogId = "unknown"
             /\ reply.Compliance.Frameworks.Requirements = <<>>
    /\ (BatchAnswered /\ BasicID \notin DOMAIN set) =>
          /\ reply.orders = << <<>>, <<>> >>
          /\ \A i \in DOMAIN reply.Results :
                reply.Results[i].Metadata =
                   [Control |-> [Id |-> reply.policies[i].PolicyRuleId,
                                 Category |-> "Unknown",
                                 RemediationDescription |-> "nil",
                                 CatalogId |-> "unknown"],
                    Frameworks |-> [Requirements |-> <<>>, Frameworks |-> <<>>]]

\* A batch answered by the fallback with the Unmapped fallback for a rule
\* id that a mapper held in the set maps in the scope.
C28_Witness ==
    /\ BatchAnswered /\ BasicID \notin DOMAIN set
    /\ \E id \in DOMAIN set, i \in DOMAIN reply.Results :
          /\ Matching(set[id], reply.policies[i].PolicyRuleId) # {}
          /\ reply.Results[i].Metadata.Control.CatalogId = "unknown"

\* C29: within one catalog the procedure index keeps, for a procedure id
\* shared by several procedures, only the entry of the last one in plan,
\* requirement, procedure order, and GetMetadata resolves the rule id
\* through that entry alone: a catalog whose last such procedure leads to a
\* control it does not list is never the catalog of the result, even when
\* an earlier procedure with the id would match.  The control index keeps,
\* for a control id listed in several families, the title and mappings of
\* the last family.
C29_LastEntryShadowsEarlier ==
    GotMetadata =>
        LET plans == set[reply.id] IN
        \A c \in DOMAIN plans \cap DOMAIN scope :
            /\ \A id \in RuleIds :
                  LET positions == ProcedurePositions(plans[c], id) IN
                  IF positions = {}
                  THEN id \notin DOMAIN buildProceduresMap(plans[c])
                  ELSE LET x == LastPosition(positions) IN
                       buildProceduresMap(plans[c])[id] =
                          [ControlID |-> plans[c][x[1]].Control.EntryId,
                           RequirementID |-> plans[c][x[1]].Assessments[x[2]].Requirement.EntryId,
                           Documentation |->
                              plans[c][x[1]].Assessments[x[2]].Procedures[x[3]].Documentation]
            /\ \A controlId \in DOMAIN buildControlDataMap(scope[c]) :
                  LET f == Last(FamiliesWith(scope[c], controlId))
                      family == scope[c].ControlFamilies[f]
                      k == Last({n \in 1 .. Len(family.Controls) :
                                    family.Controls[n].Id = controlId})
                  IN buildControlDataMap(scope[c])[controlId] =
                        [Mappings |-> family.Controls[k].GuidelineMappings,
                         Category |-> family.Title]
            /\ ~LastProcedureMatches(plans, c, reply.policyRuleId) =>
                  reply.metadata.Control.CatalogId # c
            /\ reply.metadata.Control.CatalogId = c =>
                  LET x == LastPosition(ProcedurePositions(plans[c], reply.policyRuleId))
                  IN /\ reply.metadata.Control.Id =
                           plans[c][x[1]].Assessments[x[2]].Requirement.EntryId
                     /\ reply.metadata.Frameworks.Frameworks =
                           extractStandards(MappingsAt(plans, c, x))

\* A rule id came back Unmapped from a catalog in which an earlier
\* procedure with that id leads to a listed control and the last one does
\* not.
C29_Witness ==
    /\ GotMetadata /\ reply.enrichmentStatus = Unmapped
    /\ \E c \in DOMAIN set[reply.id] \cap DOMAIN scope :
          /\ SomeProcedureMatches(set[reply.id], c, reply.policyRuleId)
          /\ ~LastProcedureMatches(set[reply.id], c, reply.policyRuleId)

\* A complete metadata object of the remote for rule id k.
WholeMetadata(k, m) ==
    /\ m # NilMetadata
    /\ \E v \in 0 .. MaxVersion : m = MetadataOf(k, v)

\* C24: every value in the cache is a complete, non-nil metadata object,
\* and every step that puts or replaces a value puts the metadata of a
\* remote result that carried no error: the one Retrieve fetched, or the
\* one at hand in prefetchBatch's loop.  A call whose request failed or was
\* cancelled has no such step, so it writes nothing.
C24_CacheHoldsWholeMetadata ==
    /\ [](\A k \in DOMAIN cache : WholeMetadata(k, cache[k]))
    /\ [][\A k \in DOMAIN cache' :
             (k \notin DOMAIN cache \/ cache'[k] # cache[k]) =>
                \E p \in Procs :
                   \/ /\ pc[p] = "r_set" /\ RuleOf(p) = k
                      /\ cur[p].sent[1].answer = "ok"
                      /\ cache'[k] = cur[p].metadata
                   \/ /\ pc[p] = "p_store"
                      /\ LET result == cur[p].resp[cur[p].j + 1] IN
                         /\ result.PolicyRuleId = k
                         /\ ~result.Error
                         /\ cache'[k] = result.Metadata]_vars

\* A Prefetch of two rule ids whose second result carried an error cached
\* the first only, and a Retrieve for the second whose request failed left
\* it uncached.
C24_Witness ==
    \E p, q \in Procs :
        /\ DonePrefetch(p) /\ Len(cur[p].ids) = 2
        /\ ~cur[p].sent[1].failed
        /\ cur[p].sent[1].good = {cur[p].ids[1]}
        /\ DoneRetrieve(q) /\ ~cur[q].ok
        /\ cur[q].sent # <<>> /\ cur[q].sent[1].answer = "fail"
        /\ RuleOf(q) = cur[p].ids[2]
        /\ DOMAIN cache = {cur[p].ids[1]}
        /\ WholeMetadata(cur[p].ids[1], cache[cur[p].ids[1]])

\* C21 as stated: the enrichment status of every Retrieve result is the
\* one the resolver produced for the rule id, Success when the metadata
\* is a mapping and Unmapped when it is the fallback, on a miss and on a
\* hit alike.
C21_RetrieveCarriesResolverStatus ==
    \A p \in Procs :
        (DoneRetrieve(p) /\ cur[p].ok) =>
            cur[p].out.EnrichmentStatus =
                IF cur[p].out.Control.CatalogId = "unknown" THEN Unmapped ELSE Success

\* The plans the mapper may have had at an earlier time: under some of its
\* catalog ids, a prefix of the plans it has now.
EarlierPlans(plans) ==
    UNION {{P \in [D -> UNION {{SubSeq(plans[c], 1, n) : n \in 0 .. Len(plans[c])} :
                                  c \in D}] :
               \A c \in D : IsPrefix(P[c], plans[c])} : D \in SUBSET DOMAIN plans}

\* What the client holds after the handler resolved rule id k at some time.
ResolvedFor(k) ==
    {DecodeMetadata(GetMetadata(P, k, scope, order).metadata) :
        <<P, order>> \in UNION {{P} \X VisitOrders(P) : P \in EarlierPlans(BaselinePlans)}}

\* C27: against the service's batch handler every cache entry k -> m holds
\* metadata the handler resolved for rule id k.  Retrieve stores under the
\* requested id the first result of a request for that id alone, and a
\* round of prefetchBatch's loop stores a result under the policyRuleId it
\* carries, which is the id at the same position of the request.
C27_EntryIsResolutionOfItsKey ==
    /\ [](\A k \in DOMAIN cache : cache[k] \in ResolvedFor(k))
    /\ [][\A p \in Procs :
             /\ (pc[p] = "r_set" /\ pc'[p] = "idle") =>
                   /\ cur[p].sent = <<[ids |-> <<RuleOf(p)>>, answer |-> "ok"]>>
                   /\ cache'[RuleOf(p)] = cur[p].metadata
                   /\ cur[p].metadata \in ResolvedFor(RuleOf(p))
             /\ (pc[p] = "p_store" /\ cur'[p] # cur[p]) =>
                   LET result == cur[p].resp[cur[p].j + 1]
                       request == cur[p].sent[Len(cur[p].sent)].ids
                   IN /\ result.PolicyRuleId = request[cur[p].j + 1]
                      /\ result.Index = cur[p].j
                      /\ cache'[result.PolicyRuleId] = result.Metadata
                      /\ result.Metadata \in ResolvedFor(result.PolicyRuleId)]_vars

\* After a Prefetch of two rule ids and registrations made since, the
\* cache holds the fallback for one of them and a mapping for the other.
C27_Witness ==
    /\ DOMAIN cache = RuleIds
    /\ \E p \in Procs : DonePrefetch(p) /\ Len(cur[p].ids) = 2
    /\ \E k \in RuleIds : cache[k].Control.CatalogId = "unknown"
    /\ \E k \in RuleIds : cache[k].Control.CatalogId \in CatalogIds

\* A caller is in the middle of an access to the events map.
AccessesEvents(p) == pc[p] \in {"a_write", "e_range"}

\* C30 as stated: every access to the events map is made while holding
\* Store.mu, no range of Events over the map is overlapped by a write of
\* Add, and Events returns at most one event per evidence id.
C30_EventsMapAccessedUnderLock ==
    \A p \in Procs :
        /\ AccessesEvents(p) => mu = p
        /\ pc[p] = "e_range" => ~cur[p].raced
        /\ (pc[p] = "idle" /\ cur[p].op = "Events") =>
              \A a, b \in DOMAIN cur[p].out :
                 cur[p].out[a].Evidence.ID = cur[p].out[b].Evidence.ID => a = b

\* C23 as stated: a GetMetadata that runs while plans are registered sees a
\* consistent snapshot: no write to the plans map falls inside its range
\* over the map, and what it returns is what the plans before or the plans
\* after the registration resolve to.
C23_ResolutionSeesSnapshot ==
    \A p \in Procs :
        /\ pc[p] = "g_range" => ~cur[p].raced
        /\ pc[p] # "fatal"
        /\ (pc[p] = "idle" /\ cur[p].op = "GetMetadata") =>
              \E plans \in {cur[p].plans0, set[BasicID]} :
                 \E order \in VisitOrders(plans) :
                    cur[p].got = GetMetadata(plans, cur[p].policyRuleId, scope, order)

\* The attribute keys ApplyEnrichment writes.
ComplianceAttributes ==
    {"COMPLIANCE_STATUS", "COMPLIANCE_CONTROL_ID", "COMPLIANCE_CONTROL_CATALOG_ID",
     "COMPLIANCE_CONTROL_CATEGORY", "COMPLIANCE_REQUIREMENTS", "COMPLIANCE_FRAMEWORKS",
     "COMPLIANCE_REMEDIATION_DESCRIPTION"}

\* The record at a position of a batch of logs.
RecordAt(ld, at) == ld[at[1]][at[2]][at[3]]

\* The positions of a returned processLogs call whose record could not be
\* enriched: no evidence extracted, or Retrieve failed.
Unenriched(p) == cur[p].unextracted \cup cur[p].unretrieved

====
